---- MODULE Spec2Model ----
(***************************************************************************)
(* Cross-exchange arbitrage scan: pair registry, price aggregation, spread *)
(* detection (findArbitrage) and the execution validator                   *)
(* (validateOpportunities) of src/src/services/arbitrageService.ts.        *)
(*                                                                         *)
(* Numbers.  JavaScript doubles are modelled as exact rationals <<n, d>>   *)
(* in lowest terms with d > 0; percentages that the program reads from     *)
(* configuration are rationals as well (0.8 is <<4, 5>>).  Number.toFixed  *)
(* is modelled by ToFixed, which rounds to a given number of decimals.     *)
(***************************************************************************)
EXTENDS Integers, Sequences, FiniteSets, TLC

\* ------------------------------------------------------------------------
\* Exact rational arithmetic (the model of IEEE doubles)
\* ------------------------------------------------------------------------
Abs(n) == IF n < 0 THEN -n ELSE n

RECURSIVE GCD(_, _)
GCD(a, b) == IF b = 0 THEN a ELSE GCD(b, a % b)

R(n, d) ==
  LET s == IF d < 0 THEN -1 ELSE 1
      g == GCD(Abs(n), Abs(d))
  IN  <<(s * n) \div g, (s * d) \div g>>

RInt(n) == <<n, 1>>
\* NaN, as Number() yields for a missing or malformed field and as 0 / 0
\* yields; x / 0 for x # 0 is the infinity <<1, 0>> or <<-1, 0>>
NaN == <<0, 0>>
RAdd(a, b) ==
  LET g == GCD(a[2], b[2])
  IN  R(a[1] * (b[2] \div g) + b[1] * (a[2] \div g), (a[2] \div g) * b[2])
RNeg(a) == <<-a[1], a[2]>>
RSub(a, b) == RAdd(a, RNeg(b))
RMul(a, b) ==
  LET x == R(a[1], b[2])
      y == R(b[1], a[2])
  IN  <<x[1] * y[1], x[2] * y[2]>>
RDiv(a, b) ==
  IF b[1] = 0 THEN (IF a[1] = 0 THEN NaN ELSE <<(IF a[1] > 0 THEN 1 ELSE -1), 0>>)
  ELSE RMul(a, R(b[2], b[1]))
RSign(a) == IF a[1] > 0 THEN 1 ELSE IF a[1] < 0 THEN -1 ELSE 0
\* a < b: false when either side is NaN
RLess(a, b) == a # NaN /\ b # NaN /\ RSign(RSub(a, b)) < 0
\* a <= b: false when either side is NaN
RLeq(a, b) == a # NaN /\ b # NaN /\ RSign(RSub(a, b)) <= 0
RMin(a, b) == IF RLess(b, a) THEN b ELSE a

\* floor of a rational with positive denominator
RFloor(a) == a[1] \div a[2]

Pow10(k) == IF k = 2 THEN 100 ELSE IF k = 3 THEN 1000 ELSE 1
\* a conversion that cuts the decimals after the k-th off
ToFixedTruncating(a, k) ==
  R(RSign(a) * RFloor(RMul(<<Abs(a[1]), a[2]>>, RInt(Pow10(k)))), Pow10(k))

\* Number(x.toFixed(k)): x rounded to k decimals, ties away from zero
\* (NaN and the infinities come back as they are)
ToFixed(a, k) ==
  IF a[2] = 0 THEN a
  ELSE LET m == RMul(<<Abs(a[1]), a[2]>>, RInt(Pow10(k)))
           q == RFloor(RAdd(m, <<1, 2>>))
       IN  R(RSign(a) * q, Pow10(k))

\* undefined / null: an optional value is the empty tuple or the value itself
\* (a rational) or a one-element sequence holding it (a record)
NONE == <<>>
Some(x) == <<x>>

\* ------------------------------------------------------------------------
\* Configuration (arbitrageConfig.ts) and the venue table (exchangeConfigs.ts)
\* ------------------------------------------------------------------------
MIN_24H_VOLUME == 50000
MAX_SLIPPAGE_PERCENT == <<4, 5>>
MIN_REAL_PROFIT_USD == 5
DEFAULT_TRADE_AMOUNT == 100
DEFAULT_MIN_DIFF_PERCENT == <<1, 2>>

\* the venues of `exchanges` that differ in the optional operations they
\* provide, in the order of the exported list
exchanges == <<"binance", "kucoin", "huobi", "qmall">>
Venues == {exchanges[i] : i \in 1..Len(exchanges)}

HasTickers24h(v) == v \in {"binance", "kucoin", "huobi"}
HasOrderBook(v) == v \in {"binance", "kucoin", "huobi"}
HasCurrencies(v) == v \in {"kucoin", "huobi"}

Symbols == {"BTCUSDT"}

\* EXCHANGE_FEES_JSON tables the process may be started with: venue -> fees
FeeRec(taker, transfer) == [takerFeePercent |-> taker, transferFeePercent |-> transfer]
NoOverride == [v \in {} |-> FeeRec(<<0, 1>>, <<0, 1>>)]
KucoinTransferFee == [v \in {"kucoin"} |-> FeeRec(<<1, 10>>, <<2, 1>>)]
ZeroFees == [v \in {"binance", "qmall"} |-> FeeRec(<<0, 1>>, <<0, 1>>)]
FeeOverrideChoices == {NoOverride, KucoinTransferFee, ZeroFees}

\* resolveFees(name, { takerFeePercent: 0.1 }) against the override table
resolveFees(overrides, name) ==
  IF name \in DOMAIN overrides
    THEN overrides[name]
    ELSE FeeRec(<<1, 10>>, <<0, 1>>)

\* ------------------------------------------------------------------------
\* Sequence helpers
\* ------------------------------------------------------------------------
Range(s) == {s[i] : i \in 1..Len(s)}

\* ------------------------------------------------------------------------
\* Spread detector
\* ------------------------------------------------------------------------
\* prices is a sequence of [symbol, entries]; entries is the venue -> price
\* object of one symbol in insertion order: a sequence of [exchange, price]
PriceEntry(e, p) == [exchange |-> e, price |-> p]

\* a leg whose fee lowers the price on both sides
buildLegDiscounted(fees, exchange, price, side) ==
  LET totalFeePercent == RAdd(fees.takerFeePercent, fees.transferFeePercent)
  IN  [exchange |-> exchange,
       price |-> price,
       effectivePrice |-> RMul(RInt(price), RSub(RInt(1), RDiv(totalFeePercent, RInt(100)))),
       feePercentApplied |-> totalFeePercent]

\* buildLeg(fees, exchange, price, side), fees being the venue's resolved fees
buildLeg(fees, exchange, price, side) ==
  LET totalFeePercent == RAdd(fees.takerFeePercent, fees.transferFeePercent)
      multiplier == IF side = "buy"
                      THEN RAdd(RInt(1), RDiv(totalFeePercent, RInt(100)))
                      ELSE RSub(RInt(1), RDiv(totalFeePercent, RInt(100)))
  IN  [exchange |-> exchange,
       price |-> price,
       effectivePrice |-> RMul(RInt(price), multiplier),
       feePercentApplied |-> totalFeePercent]

\* a reduce callback that compares the listed prices instead
cheaperByRawPrice(next, best) == next.price < best.price

\* next.effectivePrice < best.effectivePrice
cheaperBuy(next, best) == RLess(next.effectivePrice, best.effectivePrice)

\* legs.reduce((best, next) => next.effectivePrice < best.effectivePrice ? next : best)
RECURSIVE ReduceBuy(_, _, _)
ReduceBuy(legs, i, best) ==
  IF i > Len(legs) THEN best
  ELSE ReduceBuy(legs, i + 1, IF cheaperBuy(legs[i], best) THEN legs[i] ELSE best)

\* legs.reduce((best, next) => next.effectivePrice > best.effectivePrice ? next : best)
RECURSIVE ReduceSell(_, _, _)
ReduceSell(legs, i, best) ==
  IF i > Len(legs) THEN best
  ELSE ReduceSell(legs, i + 1,
         IF RLess(best.effectivePrice, legs[i].effectivePrice) THEN legs[i] ELSE best)

bestBuyOf(feeTable, entries) ==
  LET buyLegs == [i \in 1..Len(entries) |->
                    buildLeg(feeTable[entries[i].exchange], entries[i].exchange, entries[i].price, "buy")]
  IN  ReduceBuy(buyLegs, 2, buyLegs[1])

bestSellOf(feeTable, entries) ==
  LET sellLegs == [i \in 1..Len(entries) |->
                     buildLeg(feeTable[entries[i].exchange], entries[i].exchange, entries[i].price, "sell")]
  IN  ReduceSell(sellLegs, 2, sellLegs[1])

MinOf(S) == CHOOSE x \in S : \A y \in S : x <= y
MaxOf(S) == CHOOSE x \in S : \A y \in S : x >= y

\* a spread with the two legs the other way round
netDiffOfSwappedLegs(bestBuy, bestSell) ==
  RMul(RDiv(RSub(bestBuy.effectivePrice, bestSell.effectivePrice), bestBuy.effectivePrice), RInt(100))

\* (bestSell.effectivePrice - bestBuy.effectivePrice) / bestBuy.effectivePrice * 100
netDiffOf(bestBuy, bestSell) ==
  RMul(RDiv(RSub(bestSell.effectivePrice, bestBuy.effectivePrice), bestBuy.effectivePrice), RInt(100))

\* a raw spread taken relative to the highest price
grossDiffOfMax(min, max) == RMul(RDiv(RInt(max - min), RInt(max)), RInt(100))

\* ((max - min) / min) * 100
grossDiffOf(min, max) == RMul(RDiv(RInt(max - min), RInt(min)), RInt(100))

\* a test that drops a spread equal to the threshold
passesThresholdStrictly(netDiff, minDiffPercent) == RLess(minDiffPercent, netDiff)

\* the candidate test of findArbitrage: if (netDiff < minDiffPercent) return null
passesThreshold(netDiff, minDiffPercent) == ~RLess(netDiff, minDiffPercent)

\* a length test that lets a single quote through
noQuotes(entries) == Len(entries) < 1

\* if (entries.length < 2) return null
tooFewQuotes(entries) == Len(entries) < 2

\* the body of the .map callback for one symbol; NONE when it returns null
detectSymbol(feeTable, symbol, entries, minDiffPercent) ==
  IF tooFewQuotes(entries) THEN NONE
  ELSE
    LET rawPrices == {entries[i].price : i \in 1..Len(entries)}
        min == MinOf(rawPrices)
        max == MaxOf(rawPrices)
        grossDiff == grossDiffOf(min, max)
        bestBuy == bestBuyOf(feeTable, entries)
        bestSell == bestSellOf(feeTable, entries)
        netDiff == netDiffOf(bestBuy, bestSell)
    IN  IF ~passesThreshold(netDiff, minDiffPercent) THEN NONE
        ELSE Some([symbol |-> symbol,
              min |-> min,
              max |-> max,
              diff |-> ToFixed(grossDiff, 2),
              netDiff |-> ToFixed(netDiff, 2),
              buy |-> bestBuy,
              sell |-> bestSell,
              exchanges |-> entries,
              tradeAmountUsd |-> NONE,
              realProfitUsd |-> NONE,
              validation |-> NONE])

RECURSIVE findArbitrageFrom(_, _, _, _)
findArbitrageFrom(feeTable, pr, minDiffPercent, i) ==
  IF i > Len(pr) THEN <<>>
  ELSE
    LET o == detectSymbol(feeTable, pr[i].symbol, pr[i].entries, minDiffPercent)
        rest == findArbitrageFrom(feeTable, pr, minDiffPercent, i + 1)
    IN  o \o rest

findArbitrage(feeTable, pr, minDiffPercent) == findArbitrageFrom(feeTable, pr, minDiffPercent, 1)


\* ------------------------------------------------------------------------
\* Execution validator: pure parts
\* ------------------------------------------------------------------------
\* x <= 1/k for a non-negative rational x (the tolerances 1e-9, 1e-6, 1e-12)
LeqTiny(x, k) == x[1] <= x[2] \div k
INV_1E6 == 1000000
INV_1E9 == 1000000000

Level(p, a) == [price |-> p, amount |-> a]
Book(b, a) == [bids |-> b, asks |-> a]
Fill(px, base) == [executablePrice |-> px, baseAmount |-> base]

\* one ask level taken (lines 442-447); st is
\* <<remainingQuote, baseBought, quoteSpent>>
takeAsk(st, price, takeQuote) ==
  <<RSub(st[1], takeQuote), RAdd(st[2], RDiv(takeQuote, price)), RAdd(st[3], takeQuote)>>

RECURSIVE buyLoop(_, _, _)

\* if (remainingQuote <= 1e-9) break
buyBreak(asks, i, nx) == IF LeqTiny(nx[1], INV_1E9) THEN nx ELSE buyLoop(asks, i + 1, nx)

\* the for loop of vwapBuyForQuoteAmount from level i on
buyLoop(asks, i, st) ==
  IF i > Len(asks) THEN st
  ELSE IF RSign(asks[i].price) <= 0 \/ RSign(asks[i].amount) <= 0
    THEN buyLoop(asks, i + 1, st)
    ELSE buyBreak(asks, i,
                  takeAsk(st, asks[i].price, RMin(st[1], RMul(asks[i].price, asks[i].amount))))

\* a result whose price is the base bought per quote spent
buyResultInverted(st) ==
  IF RSign(st[2]) <= 0 \/ ~LeqTiny(st[1], INV_1E6) THEN NONE
  ELSE Some(Fill(RDiv(st[2], st[3]), st[2]))

\* lines 451-452 on the loop's final <<remainingQuote, baseBought, quoteSpent>>
buyResult(st) ==
  IF RSign(st[2]) <= 0 \/ ~LeqTiny(st[1], INV_1E6) THEN NONE
  ELSE Some(Fill(RDiv(st[3], st[2]), st[2]))

vwapBuyForQuoteAmount(book, quoteAmount) ==
  buyResult(buyLoop(book.asks, 1, <<quoteAmount, RInt(0), RInt(0)>>))

\* x <= 1e-12: floor(floor(d / 1e6) / 1e6) = floor(d / 1e12)
LeqTiny12(x) == x[1] <= (x[2] \div INV_1E6) \div INV_1E6

\* a level step that books the whole remaining amount at the level's price
takeBidOfRemaining(st, price, takeBase) ==
  <<RSub(st[1], takeBase), RAdd(st[2], takeBase), RAdd(st[3], RMul(st[1], price))>>

\* one bid level taken (lines 462-465); st is
\* <<remainingBase, baseSold, quoteReceived>>
takeBid(st, price, takeBase) ==
  <<RSub(st[1], takeBase), RAdd(st[2], takeBase), RAdd(st[3], RMul(takeBase, price))>>

RECURSIVE sellLoop(_, _, _)

\* if (remainingBase <= 1e-12) break
sellBreak(bids, i, nx) == IF LeqTiny12(nx[1]) THEN nx ELSE sellLoop(bids, i + 1, nx)

\* the for loop of vwapSellForBaseAmount from level i on
sellLoop(bids, i, st) ==
  IF i > Len(bids) THEN st
  ELSE IF RSign(bids[i].price) <= 0 \/ RSign(bids[i].amount) <= 0
    THEN sellLoop(bids, i + 1, st)
    ELSE sellBreak(bids, i, takeBid(st, bids[i].price, RMin(st[1], bids[i].amount)))

\* a result test without the check on the base amount left over
sellResultIgnoringRemainder(st) ==
  IF RSign(st[2]) <= 0 THEN NONE
  ELSE Some(Fill(RDiv(st[3], st[2]), st[2]))

\* lines 469-470 on the loop's final <<remainingBase, baseSold, quoteReceived>>
sellResult(st) ==
  IF RSign(st[2]) <= 0 \/ ~LeqTiny(st[1], INV_1E9) THEN NONE
  ELSE Some(Fill(RDiv(st[3], st[2]), st[2]))

vwapSellForBaseAmount(book, baseAmount) ==
  sellResult(sellLoop(book.bids, 1, <<baseAmount, RInt(0), RInt(0)>>))

\* symbol.endsWith('USDT') ? symbol.slice(0, -4) : symbol
baseFromSymbolUsdt(symbol) ==
  CASE symbol = "BTCUSDT" -> "BTC"
    [] symbol = "ETHUSDT" -> "ETH"
    [] OTHER -> symbol

\* String.prototype.toUpperCase on the names that occur
toUpperCase(str) ==
  CASE str = "erc20" -> "ERC20"
    [] str = "trc20" -> "TRC20"
    [] str = "btc" -> "BTC"
    [] OTHER -> str

Network(n, dep, wd) == [network |-> n, depositEnabled |-> dep, withdrawEnabled |-> wd]
Transfer(st, net, why) == [status |-> st, network |-> net, reason |-> why]

\* currencies: NONE for null/undefined, else Some(code -> [networks])
networksOf(currencies, code) ==
  IF code \in DOMAIN currencies[1] THEN currencies[1][code].networks ELSE <<>>

\* a test that takes any withdraw-enabled network of the buy venue
withdrawable(net, sellDeposit) == net.withdrawEnabled

\* a key of buyWithdraw for which sellDeposit.has(net)
qualifies(net, sellDeposit) ==
  net.withdrawEnabled /\ toUpperCase(net.network) \in sellDeposit

\* first key of buyWithdraw that sellDeposit has, from position i on
RECURSIVE firstCommon(_, _, _)
firstCommon(buyNets, sellDeposit, i) ==
  IF i > Len(buyNets) THEN ""
  ELSE IF qualifies(buyNets[i], sellDeposit)
    THEN toUpperCase(buyNets[i].network)
    ELSE firstCommon(buyNets, sellDeposit, i + 1)

\* a deposit map that keeps the networks with deposits disabled
sellDepositOfAll(sellNets) == {toUpperCase(sellNets[j].network) : j \in 1..Len(sellNets)}

\* the keys of sellDeposit: the upper-cased networks with depositEnabled
sellDepositOf(sellNets) ==
  {toUpperCase(sellNets[j].network) : j \in {k \in 1..Len(sellNets) : sellNets[k].depositEnabled}}

validateTransferabilityFromCache(buyCurrencies, sellCurrencies, buyEx, sellEx, currency) ==
  IF buyCurrencies = NONE \/ sellCurrencies = NONE
    THEN Transfer("unavailable", "",
                  IF buyCurrencies = NONE THEN buyEx ELSE sellEx)
    ELSE
      LET buyNets == networksOf(buyCurrencies, toUpperCase(currency))
          sellNets == networksOf(sellCurrencies, toUpperCase(currency))
      IN  IF Len(buyNets) = 0 \/ Len(sellNets) = 0
            THEN Transfer("unknown", "", "currency networks missing")
            ELSE
              LET sellDeposit == sellDepositOf(sellNets)
                  net == firstCommon(buyNets, sellDeposit, 1)
              IN  IF net # "" THEN Transfer("ok", net, "")
                  ELSE Transfer("blocked", "", "no common network with withdraw+deposit enabled")

\* the leg record of a validation: every field optional
LegVal(best, exec, slip, vol) ==
  [bestPrice |-> best, executablePrice |-> exec, slippagePercent |-> slip, volume24hQuote |-> vol]
NoLeg == LegVal(NONE, NONE, NONE, NONE)

\* buildLegValidationOptional(partial, volume24hQuote); an all-NONE record
\* stands for the undefined that buildLegValidation returns for no keys
buildLegValidationOptional(partial, volume24hQuote) ==
  LegVal(partial.bestPrice, partial.executablePrice, partial.slippagePercent, volume24hQuote)

\* a result that clears the spread of the opportunity it annotates
attachValidationClearingNetDiff(opp, status, reasons, buyVol, sellVol, buy, sell, transfer) ==
  [opp EXCEPT
     !.netDiff = RInt(0),
     !.tradeAmountUsd = RInt(DEFAULT_TRADE_AMOUNT),
     !.validation = Some([status |-> status,
                          reasons |-> reasons,
                          buy |-> buildLegValidationOptional(buy, buyVol),
                          sell |-> buildLegValidationOptional(sell, sellVol),
                          transfer |-> transfer])]

\* { ...opp, tradeAmountUsd, validation: { status, reasons, buy, sell, transfer } }
attachValidation(opp, status, reasons, buyVol, sellVol, buy, sell, transfer) ==
  [opp EXCEPT
     !.tradeAmountUsd = RInt(DEFAULT_TRADE_AMOUNT),
     !.validation = Some([status |-> status,
                          reasons |-> reasons,
                          buy |-> buildLegValidationOptional(buy, buyVol),
                          sell |-> buildLegValidationOptional(sell, sellVol),
                          transfer |-> transfer])]


\* tickersCache.get(venue)?.[symbol]?.quoteVolume24h
volumeOf(tCache, venue, symbol) ==
  IF venue \notin DOMAIN tCache THEN NONE
  ELSE IF symbol \notin DOMAIN tCache[venue] THEN NONE
  ELSE tCache[venue][symbol].quoteVolume24h

\* vol !== undefined && vol < MIN_24H_VOLUME (false for NaN)
\* a volume test against a fifth of the configured minimum
belowFifthOfMinVolume(vol) == vol # NONE /\ vol # NaN /\ RLess(vol, RInt(MIN_24H_VOLUME \div 5))

belowMinVolume(vol) == vol # NONE /\ vol # NaN /\ RLess(vol, RInt(MIN_24H_VOLUME))

\* currenciesCache.get(venue): undefined and null are both NONE
currenciesOf(cCache, venue) == IF venue \in DOMAIN cCache THEN cCache[venue] ELSE NONE

If(c, reason) == IF c THEN <<reason>> ELSE <<>>

\* the volume reasons alone, without the test for the order-book operation
volumeReasons(opp, tCache) ==
  LET buyVol == volumeOf(tCache, opp.buy.exchange, opp.symbol)
      sellVol == volumeOf(tCache, opp.sell.exchange, opp.symbol)
  IN  If(buyVol = NONE, "buy volume_24h unknown")
      \o If(sellVol = NONE, "sell volume_24h unknown")
      \o If(belowMinVolume(buyVol), "buy volume_24h < MIN_24H_VOLUME")
      \o If(belowMinVolume(sellVol), "sell volume_24h < MIN_24H_VOLUME")

\* lines 192-204: the reasons collected before any order book is requested
liquidityReasons(opp, tCache) ==
  LET buyVol == volumeOf(tCache, opp.buy.exchange, opp.symbol)
      sellVol == volumeOf(tCache, opp.sell.exchange, opp.symbol)
  IN  If(buyVol = NONE, "buy volume_24h unknown")
      \o If(sellVol = NONE, "sell volume_24h unknown")
      \o If(belowMinVolume(buyVol), "buy volume_24h < MIN_24H_VOLUME")
      \o If(belowMinVolume(sellVol), "sell volume_24h < MIN_24H_VOLUME")
      \o If(~HasOrderBook(opp.buy.exchange), "order book unsupported on buy venue")
      \o If(~HasOrderBook(opp.sell.exchange), "order book unsupported on sell venue")

\* a slippage test against a whole percent
exceedsOnePercent(slippage) == RLess(RInt(1), slippage)

\* slippage > MAX_SLIPPAGE_PERCENT
exceedsMaxSlippage(slippage) == RLess(MAX_SLIPPAGE_PERCENT, slippage)

\* a transfer test that also stops on unavailable metadata
transferRejectsUnavailable(transfer) == transfer.status \in {"unknown", "blocked", "unavailable"}

\* transfer.status === 'unknown' || transfer.status === 'blocked'
transferRejects(transfer) == transfer.status \in {"unknown", "blocked"}

\* a profit test that only stops a loss
belowZeroProfit(realProfitUsd) == RSign(realProfitUsd) < 0

\* realProfitUsd < MIN_REAL_PROFIT_USD
belowMinProfit(realProfitUsd) == RLess(realProfitUsd, RInt(MIN_REAL_PROFIT_USD))

\* attachValidation(opp, 'rejected', reasons, buyVol, sellVol, buy, sell, transfer)
reject(opp, tCache, reasons, buy, sell, transfer) ==
  attachValidation(opp, "rejected", reasons,
                   volumeOf(tCache, opp.buy.exchange, opp.symbol),
                   volumeOf(tCache, opp.sell.exchange, opp.symbol),
                   buy, sell, transfer)

\* a slippage measured from the executable price down to the best price
slippageBelowBest(worse, better, best) == RMul(RDiv(RSub(better, worse), best), RInt(100))

\* (executablePrice - bestAsk) / bestAsk * 100, and the same against bestBid
slippageOf(worse, better, best) == RMul(RDiv(RSub(worse, better), best), RInt(100))

\* a cost that leaves the buy fee out
costWithoutFees(opp) == RInt(DEFAULT_TRADE_AMOUNT)

\* DEFAULT_TRADE_AMOUNT * (1 + buyFeePct / 100)
costWithFeesOf(opp) ==
  RMul(RInt(DEFAULT_TRADE_AMOUNT), RAdd(RInt(1), RDiv(opp.buy.feePercentApplied, RInt(100))))

\* sellFill.baseAmount * sellFill.executablePrice * (1 - sellFeePct / 100)
proceedsWithFeesOf(opp, sellFill) ==
  RMul(RMul(sellFill.baseAmount, sellFill.executablePrice),
       RSub(RInt(1), RDiv(opp.sell.feePercentApplied, RInt(100))))

\* a result that keeps the netDiff of detection
detectedNetDiff(opp, realProfitUsd, costWithFees) == opp.netDiff

\* lines 313 and 317: Number(((realProfitUsd / costWithFees) * 100).toFixed(2))
validatedNetDiff(opp, realProfitUsd, costWithFees) ==
  ToFixed(RMul(RDiv(realProfitUsd, costWithFees), RInt(100)), 2)

\* lines 299-342: the real-profit test and the validated result
checkProfit(opp, tCache, buyLeg, sellLeg, transfer, costWithFees, realProfitUsd) ==
  IF belowMinProfit(realProfitUsd)
    THEN reject([opp EXCEPT !.realProfitUsd = realProfitUsd], tCache,
                <<"realProfitUsd < MIN_REAL_PROFIT_USD">>, buyLeg, sellLeg, Some(transfer))
    ELSE
      [opp EXCEPT
         !.netDiff = validatedNetDiff(opp, realProfitUsd, costWithFees),
         !.tradeAmountUsd = RInt(DEFAULT_TRADE_AMOUNT),
         !.realProfitUsd = ToFixed(realProfitUsd, 2),
         !.validation =
            Some([status |-> "validated",
                  reasons |-> NONE,
                  buy |-> [buyLeg EXCEPT
                             !.volume24hQuote = volumeOf(tCache, opp.buy.exchange, opp.symbol)],
                  sell |-> [sellLeg EXCEPT
                              !.volume24hQuote = volumeOf(tCache, opp.sell.exchange, opp.symbol)],
                  transfer |-> Some(transfer)])]

\* lines 276-297: the transfer test, then costs and proceeds
checkTransfer(opp, tCache, sellFill, buyLeg, sellLeg, transfer, costWithFees) ==
  IF transferRejects(transfer)
    THEN reject(opp, tCache, <<"transfer check " \o transfer.status>>,
                buyLeg, sellLeg, Some(transfer))
    ELSE checkProfit(opp, tCache, buyLeg, sellLeg, transfer, costWithFees,
                     RSub(proceedsWithFeesOf(opp, sellFill), costWithFees))

\* lines 248-251
slippageReasons(buySlippage, sellSlippage) ==
  If(exceedsMaxSlippage(buySlippage), "buy slippage > MAX_SLIPPAGE_PERCENT")
  \o If(exceedsMaxSlippage(sellSlippage), "sell slippage > MAX_SLIPPAGE_PERCENT")

\* lines 252-272: the slippage rejection, then the transferability lookup
checkSlippage(opp, tCache, cCache, sellFill, buyLeg, sellLeg, slipReasons) ==
  IF Len(slipReasons) > 0 THEN reject(opp, tCache, slipReasons, buyLeg, sellLeg, NONE)
  ELSE checkTransfer(opp, tCache, sellFill, buyLeg, sellLeg,
                     validateTransferabilityFromCache(
                       currenciesOf(cCache, opp.buy.exchange),
                       currenciesOf(cCache, opp.sell.exchange),
                       opp.buy.exchange, opp.sell.exchange,
                       baseFromSymbolUsdt(opp.symbol)),
                     costWithFeesOf(opp))

\* lines 246-251 on the two fills
checkSlippages(opp, tCache, cCache, sellFill, buyLeg, sellLeg) ==
  checkSlippage(opp, tCache, cCache, sellFill, buyLeg, sellLeg,
                slippageReasons(buyLeg.slippagePercent, sellLeg.slippagePercent))

\* lines 236-247: the sell simulation's result
checkSellFill(opp, tCache, cCache, bestAskPrice, bestBidPrice, buyFill, sellFill) ==
  IF sellFill = NONE
    THEN reject(opp, tCache, <<"insufficient sell-side depth">>, NoLeg, NoLeg, NONE)
    ELSE checkSlippages(opp, tCache, cCache, sellFill[1],
           LegVal(bestAskPrice, buyFill.executablePrice,
                  slippageOf(buyFill.executablePrice, bestAskPrice, bestAskPrice), NONE),
           LegVal(bestBidPrice, sellFill[1].executablePrice,
                  slippageOf(bestBidPrice, sellFill[1].executablePrice, bestBidPrice), NONE))

\* lines 225-235: the buy simulation's result, then the sell simulation
checkBuyFill(opp, tCache, cCache, sellBook, bestAskPrice, bestBidPrice, buyFill) ==
  IF buyFill = NONE
    THEN reject(opp, tCache, <<"insufficient buy-side depth">>, NoLeg, NoLeg, NONE)
    ELSE checkSellFill(opp, tCache, cCache, bestAskPrice, bestBidPrice, buyFill[1],
                       vwapSellForBaseAmount(sellBook, buyFill[1].baseAmount))

\* lines 212-342: the rest of the validator once both books are there
validateWithBooks(opp, tCache, cCache, buyBook, sellBook) ==
  IF Len(buyBook.asks) = 0
    THEN reject(opp, tCache, <<"best ask missing">>, NoLeg, NoLeg, NONE)
  ELSE IF Len(sellBook.bids) = 0
    THEN reject(opp, tCache, <<"best bid missing">>, NoLeg, NoLeg, NONE)
  ELSE checkBuyFill(opp, tCache, cCache, sellBook,
                    buyBook.asks[1].price, sellBook.bids[1].price,
                    vwapBuyForQuoteAmount(buyBook, RInt(DEFAULT_TRADE_AMOUNT)))

\* validated.filter(x => x.validation?.status === 'validated')
\* a filter callback that keeps every result carrying a validation record
hasValidation(x) == x.validation # NONE

\* x.validation?.status === 'validated'
isValidated(x) == x.validation # NONE /\ x.validation[1].status = "validated"

RECURSIVE filterValidated(_, _)
filterValidated(results, i) ==
  IF i > Len(results) THEN <<>>
  ELSE (IF isValidated(results[i]) THEN <<results[i]>> ELSE <<>>)
       \o filterValidated(results, i + 1)


\* ------------------------------------------------------------------------
\* What the venues can answer
\* ------------------------------------------------------------------------
MaxLevels == 2

\* strictly price-ordered level sequences of length n over the price list ps
\* (best price first, as the adapters sort them) with amounts from Amts
RECURSIVE SidesFrom(_, _, _, _)
SidesFrom(ps, from, n, Amts) ==
  IF n = 0 THEN {<<>>}
  ELSE UNION { { <<Level(RInt(ps[i]), a)>> \o rest :
                   a \in Amts, rest \in SidesFrom(ps, i + 1, n - 1, Amts) } :
               i \in from..Len(ps) }

Sides(ps, Amts) == UNION { SidesFrom(ps, 1, n, Amts) : n \in 0..MaxLevels }

AskPrices == <<100, 101, 102>>
BidPrices == <<107, 106, 105>>
Amounts == {<<1, 2>>, <<2, 1>>}

CurrencyInfo(nets) == [networks |-> nets]
CurrenciesOfBase(nets) == [c \in {"BTC"} |-> CurrencyInfo(nets)]
NoCurrencies == [c \in {} |-> CurrencyInfo(<<>>)]

\* the market of a deep validation run
DeepMarket ==
  [prices |-> {100, 103},
   volumes |-> {NONE, NaN, RInt(10000), RInt(50000)},
   asks |-> Sides(AskPrices, Amounts),
   bids |-> Sides(BidPrices, Amounts),
   currencies |-> { NoCurrencies,
                    CurrenciesOfBase(<<>>),
                    CurrenciesOfBase(<<Network("ERC20", TRUE, TRUE), Network("TRC20", TRUE, TRUE)>>),
                    CurrenciesOfBase(<<Network("TRC20", TRUE, TRUE)>>),
                    CurrenciesOfBase(<<Network("TRC20", FALSE, TRUE), Network("ERC20", TRUE, FALSE)>>) }]

\* the market of an end-to-end scan
ScanMarket ==
  [prices |-> {100, 110},
   volumes |-> {RInt(10000), RInt(60000)},
   asks |-> { <<Level(RInt(100), <<2, 1>>)>>,
              <<Level(RInt(100), <<1, 2>>), Level(RInt(102), <<2, 1>>)>> },
   bids |-> { <<Level(RInt(106), <<2, 1>>)>>, <<Level(RInt(104), <<2, 1>>)>> },
   currencies |-> { CurrenciesOfBase(<<Network("ERC20", TRUE, TRUE)>>),
                    CurrenciesOfBase(<<Network("TRC20", TRUE, TRUE)>>) }]

\* ------------------------------------------------------------------------
\* State
\* ------------------------------------------------------------------------
VARIABLES
  market,           \* the answers the venues can give in this run
  fees,             \* exchange.fees of every venue, fixed at module load
  pc,               \* where getArbitrageOpportunities stands
  threshold,        \* the resolved minDiffPercent
  pairsResp,        \* per venue: the getPairs() promise
  pairMap,          \* symbol -> venues offering it
  pricesResp,       \* per venue: the getPrices() promise
  prices,           \* PricesBySymbol, in insertion order
  candidates,       \* findArbitrage's result
  tickersResp,      \* per venue: the getTickers24h() promise
  tickersCache,
  currenciesResp,   \* per venue: the getCurrencies() promise
  currenciesCache,
  vstate,           \* per candidate: the async validator callback
  returned          \* what getArbitrageOpportunities resolved with

vars == <<market, fees, pc, threshold, pairsResp, pairMap, pricesResp, prices, candidates,
          tickersResp, tickersCache, currenciesResp, currenciesCache, vstate, returned>>

Idle == [v \in Venues |-> "idle"]
EmptyMap == [x \in {} |-> <<>>]

\* the state a run starts from, given the fee table of the process
Fresh(m, overrides) ==
  /\ market = m
  /\ fees = [v \in Venues |-> resolveFees(overrides, v)]
  /\ threshold = DEFAULT_MIN_DIFF_PERCENT
  /\ pairsResp = [v \in Venues |-> [st |-> "idle", pairs |-> {}]]
  /\ pairMap = EmptyMap
  /\ pricesResp = Idle
  /\ prices = <<>>
  /\ candidates = <<>>
  /\ tickersResp = Idle
  /\ tickersCache = EmptyMap
  /\ currenciesResp = Idle
  /\ currenciesCache = EmptyMap
  /\ vstate = <<>>
  /\ returned = <<>>

Init ==
  /\ pc = "idle"
  /\ \E overrides \in {NoOverride, KucoinTransferFee} : Fresh(ScanMarket, overrides)

\* the state in which collectPrices has just merged the last answer: the
\* venues of es listed the symbol and answered with the prices of es
AfterPrices(m, overrides, minDiffPercent, symbol, es) ==
  LET P == {es[i].exchange : i \in 1..Len(es)}
      resp == [v \in Venues |-> [st |-> "done", pairs |-> IF v \in P THEN {symbol} ELSE {}]]
  IN  /\ pc = "collectPrices"
      /\ market = m
      /\ fees = [v \in Venues |-> resolveFees(overrides, v)]
      /\ threshold = minDiffPercent
      /\ pairsResp = resp
      /\ pairMap = [s \in IF P = {} THEN {} ELSE {symbol} |-> SelectSeq(exchanges, LAMBDA v : v \in P)]
      /\ pricesResp = [v \in Venues |-> IF v \in P THEN "done" ELSE "skipped"]
      /\ prices = IF es = <<>> THEN <<>> ELSE <<[symbol |-> symbol, entries |-> es]>>
      /\ candidates = <<>>
      /\ tickersResp = Idle
      /\ tickersCache = EmptyMap
      /\ currenciesResp = Idle
      /\ currenciesCache = EmptyMap
      /\ vstate = <<>>
      /\ returned = <<>>

\* the price objects of one symbol: every insertion order of every set of
\* venues, each with a price
RECURSIVE EntriesOver(_, _)
EntriesOver(V, P) ==
  {<<>>} \cup UNION { { <<PriceEntry(v, p)>> \o rest : p \in P, rest \in EntriesOver(V \ {v}, P) } :
                      v \in V }

DetectPrices == {100, 101}
DetectThresholds == {DEFAULT_MIN_DIFF_PERCENT, RInt(1), RInt(0), RInt(-1)}

InitDetect ==
  \E overrides \in FeeOverrideChoices, t \in DetectThresholds, es \in EntriesOver(Venues, DetectPrices) :
    AfterPrices(ScanMarket, overrides, t, "BTCUSDT", es)

\* two venues quoting 100 and 103, in every combination of venues
ValidateEntries ==
  { <<PriceEntry(a, 100), PriceEntry(b, 103)>> : a \in Venues, b \in Venues } \
  { <<PriceEntry(a, 100), PriceEntry(a, 103)>> : a \in Venues }

\* quotes that include a price of 0, which the adapters that map the payload
\* with Number() alone let through
AnyPrices == {0, 100, 101}
AnyPriceThresholds == {<<1, 10>>, DEFAULT_MIN_DIFF_PERCENT, RInt(0), RInt(-1)}

InitDetectAnyPrice ==
  \E overrides \in FeeOverrideChoices, t \in AnyPriceThresholds, es \in EntriesOver(Venues, AnyPrices) :
    AfterPrices(ScanMarket, overrides, t, "BTCUSDT", es)

InitValidate ==
  \E es \in ValidateEntries : AfterPrices(DeepMarket, NoOverride, DEFAULT_MIN_DIFF_PERCENT, "BTCUSDT", es)


\* the venues that quote the symbol of one entry of PricesBySymbol
QuotingVenues(entry) == {entry.entries[i].exchange : i \in 1..Len(entry.entries)}

\* the state in which collectPrices has just merged the last answer, for the
\* prices pr of several symbols
AfterPricesOf(m, overrides, minDiffPercent, pr) ==
  /\ pc = "collectPrices"
  /\ market = m
  /\ fees = [v \in Venues |-> resolveFees(overrides, v)]
  /\ threshold = minDiffPercent
  /\ pairsResp = [v \in Venues |->
                    [st |-> "done",
                     pairs |-> {pr[k].symbol : k \in {j \in 1..Len(pr) : v \in QuotingVenues(pr[j])}}]]
  /\ pairMap = [s \in {pr[k].symbol : k \in 1..Len(pr)} |->
                  SelectSeq(exchanges,
                            LAMBDA v : \E k \in 1..Len(pr) : pr[k].symbol = s /\ v \in QuotingVenues(pr[k]))]
  /\ pricesResp = [v \in Venues |->
                     IF \E k \in 1..Len(pr) : v \in QuotingVenues(pr[k]) THEN "done" ELSE "skipped"]
  /\ prices = pr
  /\ candidates = <<>>
  /\ tickersResp = Idle
  /\ tickersCache = EmptyMap
  /\ currenciesResp = Idle
  /\ currenciesCache = EmptyMap
  /\ vstate = <<>>
  /\ returned = <<>>

\* the market of a run over two symbols
PrefetchMarket ==
  [prices |-> {100, 103},
   volumes |-> {RInt(60000)},
   asks |-> { <<Level(RInt(100), <<2, 1>>)>> },
   bids |-> { <<Level(RInt(106), <<2, 1>>)>> },
   currencies |-> { CurrenciesOfBase(<<Network("ERC20", TRUE, TRUE)>>) }]

\* two symbols, each quoted by two venues at 100 and 103, or by one venue
PrefetchEntries ==
  ValidateEntries \cup { <<PriceEntry(a, 100)>> : a \in Venues }

InitPrefetch ==
  \E btc \in PrefetchEntries, eth \in PrefetchEntries :
     AfterPricesOf(PrefetchMarket, NoOverride, DEFAULT_MIN_DIFF_PERCENT,
                   <<[symbol |-> "BTCUSDT", entries |-> btc], [symbol |-> "ETHUSDT", entries |-> eth]>>)

\* ------------------------------------------------------------------------
\* getArbitrageOpportunities: registry and price aggregation
\* ------------------------------------------------------------------------
RECURSIVE SetToSeq(_)
SetToSeq(S) ==
  IF S = {} THEN <<>>
  ELSE LET x == CHOOSE y \in S : TRUE IN <<x>> \o SetToSeq(S \ {x})

RECURSIVE venuesListing(_, _, _)
venuesListing(resp, symbol, i) ==
  IF i > Len(exchanges) THEN <<>>
  ELSE (IF symbol \in resp[exchanges[i]].pairs THEN <<exchanges[i]>> ELSE <<>>)
       \o venuesListing(resp, symbol, i + 1)

\* the map built by collectPairs from the settled getPairs() results
buildPairMap(resp) ==
  [s \in UNION {resp[v].pairs : v \in Venues} |-> venuesListing(resp, s, 1)]

\* a lookup that hands every venue every symbol of the registry
symbolsOfRegistry(pm, v) == DOMAIN pm

symbolsForExchange(pm, v) == {s \in DOMAIN pm : v \in Range(pm[s])}

\* exchanges.map(...) of collectPrices: the venues that get a getPrices call
\* (symbols.length === 0 returns before the call), in the order of the list
calledVenues(pm) == SelectSeq(exchanges, LAMBDA v : symbolsForExchange(pm, v) # {})

\* the getPrices calls of one collectPrices, each with its symbols argument
priceCalls(pm) ==
  [k \in 1..Len(calledVenues(pm)) |->
     [exchange |-> calledVenues(pm)[k], symbols |-> symbolsForExchange(pm, calledVenues(pm)[k])]]

\* the getPrices promises once the calls are made
pricesRequested(pm) ==
  [v \in Venues |-> IF \E k \in 1..Len(priceCalls(pm)) : priceCalls(pm)[k].exchange = v
                      THEN "pending" ELSE "skipped"]

\* the threshold of getArbitrageOpportunities(minDiffPercent)
resolveThreshold(minDiffPercent) ==
  IF minDiffPercent # NONE /\ minDiffPercent # NaN THEN minDiffPercent
  ELSE DEFAULT_MIN_DIFF_PERCENT

ThresholdArgs == {NONE, NaN, RInt(6)}

StartScan(minDiffPercent) ==
  /\ pc = "idle"
  /\ threshold' = resolveThreshold(minDiffPercent)
  /\ pairsResp' = [v \in Venues |-> [st |-> "pending", pairs |-> {}]]
  /\ pc' = "collectPairs"
  /\ UNCHANGED <<market, fees, pairMap, pricesResp, prices, candidates, tickersResp,
                 tickersCache, currenciesResp, currenciesCache, vstate, returned>>

GetPairsResolve(v, S) ==
  /\ pc = "collectPairs"
  /\ pairsResp[v].st = "pending"
  /\ pairsResp' = [pairsResp EXCEPT ![v] = [st |-> "done", pairs |-> S]]
  /\ UNCHANGED <<market, fees, pc, threshold, pairMap, pricesResp, prices, candidates,
                 tickersResp, tickersCache, currenciesResp, currenciesCache, vstate, returned>>

\* no catch in collectPairs nor in these adapters: Promise.all rejects and
\* the scan rejects with it
GetPairsReject(v) ==
  /\ pc = "collectPairs"
  /\ pairsResp[v].st = "pending"
  /\ pairsResp' = [pairsResp EXCEPT ![v] = [st |-> "rejected", pairs |-> {}]]
  /\ pc' = "failed"
  /\ UNCHANGED <<market, fees, threshold, pairMap, pricesResp, prices, candidates,
                 tickersResp, tickersCache, currenciesResp, currenciesCache, vstate, returned>>

\* collectPairs returns; collectPrices issues one getPrices per venue that
\* has symbols
CollectPairsDone ==
  /\ pc = "collectPairs"
  /\ \A v \in Venues : pairsResp[v].st = "done"
  /\ pairMap' = buildPairMap(pairsResp)
  /\ pricesResp' = pricesRequested(buildPairMap(pairsResp))
  /\ pc' = "collectPrices"
  /\ UNCHANGED <<market, fees, threshold, pairsResp, prices, candidates,
                 tickersResp, tickersCache, currenciesResp, currenciesCache, vstate, returned>>

indexOfSymbol(pr, symbol) ==
  IF \E i \in 1..Len(pr) : pr[i].symbol = symbol
    THEN CHOOSE i \in 1..Len(pr) : pr[i].symbol = symbol
    ELSE 0

\* a write that replaces the symbol's price object by a fresh one
putPriceInFreshObject(pr, symbol, exchange, price) ==
  LET i == indexOfSymbol(pr, symbol)
  IN  IF i = 0
        THEN Append(pr, [symbol |-> symbol, entries |-> <<PriceEntry(exchange, price)>>])
        ELSE [pr EXCEPT ![i].entries = <<PriceEntry(exchange, price)>>]

\* prices[symbol] ??= {}; prices[symbol][exchange.name] = price
putPrice(pr, symbol, exchange, price) ==
  LET i == indexOfSymbol(pr, symbol)
  IN  IF i = 0
        THEN Append(pr, [symbol |-> symbol, entries |-> <<PriceEntry(exchange, price)>>])
        ELSE [pr EXCEPT ![i].entries =
                IF \E j \in 1..Len(@) : @[j].exchange = exchange
                  THEN [j \in 1..Len(@) |->
                          IF @[j].exchange = exchange THEN PriceEntry(exchange, price) ELSE @[j]]
                  ELSE Append(@, PriceEntry(exchange, price))]

RECURSIVE putPrices(_, _, _, _)
putPrices(pr, exchange, resp, syms) ==
  IF syms = <<>> THEN pr
  ELSE putPrices(putPrice(pr, Head(syms), exchange, resp[Head(syms)]), exchange, resp, Tail(syms))

\* the answers getPrices(symbols) can give: a price for some of the symbols
PriceResponses(syms) == UNION { [D -> market.prices] : D \in SUBSET syms }

GetPricesResolve(v, resp) ==
  /\ pc = "collectPrices"
  /\ pricesResp[v] = "pending"
  /\ prices' = putPrices(prices, v, resp, SetToSeq(DOMAIN resp))
  /\ pricesResp' = [pricesResp EXCEPT ![v] = "done"]
  /\ UNCHANGED <<market, fees, pc, threshold, pairsResp, pairMap, candidates,
                 tickersResp, tickersCache, currenciesResp, currenciesCache, vstate, returned>>

GetPricesReject(v) ==
  /\ pc = "collectPrices"
  /\ pricesResp[v] = "pending"
  /\ pricesResp' = [pricesResp EXCEPT ![v] = "rejected"]
  /\ pc' = "failed"
  /\ UNCHANGED <<market, fees, threshold, pairsResp, pairMap, prices, candidates,
                 tickersResp, tickersCache, currenciesResp, currenciesCache, vstate, returned>>

\* ------------------------------------------------------------------------
\* getArbitrageOpportunities: detection and validation
\* ------------------------------------------------------------------------
\* a Map<string, Set<string>> is its entries in insertion order
Entry(name, symbols) == [exchange |-> name, symbols |-> symbols]
indexOfEntry(map, name) ==
  IF \E k \in 1..Len(map) : map[k].exchange = name
    THEN CHOOSE k \in 1..Len(map) : map[k].exchange = name
    ELSE 0

\* an addSymbol that makes a new entry on every call
addSymbolAsNewEntry(map, exchangeName, symbol) == Append(map, Entry(exchangeName, {symbol}))

\* addSymbol(map, exchangeName, symbol)
addSymbol(map, exchangeName, symbol) ==
  IF indexOfEntry(map, exchangeName) # 0
    THEN [map EXCEPT ![indexOfEntry(map, exchangeName)].symbols = @ \cup {symbol}]
    ELSE Append(map, Entry(exchangeName, {symbol}))

\* if (buy?.getTickers24h) addSymbol(...); if (sell?.getTickers24h) addSymbol(...)
addLeg(map, exchangeName, symbol) ==
  IF HasTickers24h(exchangeName) THEN addSymbol(map, exchangeName, symbol) ELSE map

\* the loop of lines 142-147 from candidate i on
RECURSIVE symbolsByExchangeFrom(_, _, _)
symbolsByExchangeFrom(cands, i, map) ==
  IF i > Len(cands) THEN map
  ELSE symbolsByExchangeFrom(cands, i + 1,
         addLeg(addLeg(map, cands[i].buy.exchange, cands[i].symbol),
                cands[i].sell.exchange, cands[i].symbol))

\* [...symbolsByExchange.entries()].map(...): one getTickers24h call per
\* entry, with the entry's symbols
tickerCalls(cands) == symbolsByExchangeFrom(cands, 1, <<>>)

\* symbolsByExchange of validateOpportunities, as venue -> symbols
symbolsByExchange(cands) ==
  [v \in {tickerCalls(cands)[k].exchange : k \in 1..Len(tickerCalls(cands))} |->
     UNION {tickerCalls(cands)[k].symbols :
              k \in {j \in 1..Len(tickerCalls(cands)) : tickerCalls(cands)[j].exchange = v}}]

\* Set.add on the names in insertion order
addName(names, name) == IF name \in Range(names) THEN names ELSE Append(names, name)

\* exchangesNeedingCurrencies (lines 166-170) from candidate i on
RECURSIVE exchangesNeedingCurrenciesFrom(_, _, _)
exchangesNeedingCurrenciesFrom(cands, i, names) ==
  IF i > Len(cands) THEN names
  ELSE exchangesNeedingCurrenciesFrom(cands, i + 1,
         addName(addName(names, cands[i].buy.exchange), cands[i].sell.exchange))

\* [...exchangesNeedingCurrencies].map(...): one getCurrencies call per name
\* whose venue has the operation
currencyCalls(cands) ==
  SelectSeq(exchangesNeedingCurrenciesFrom(cands, 1, <<>>), HasCurrencies)

\* the symbols getTickers24h(v) was called with
requestedSymbols(cands, v) ==
  IF v \in DOMAIN symbolsByExchange(cands) THEN symbolsByExchange(cands)[v] ELSE {}

\* collectPrices returns, findArbitrage runs, validateOpportunities issues
\* the ticker requests
CollectPricesDone ==
  /\ pc = "collectPrices"
  /\ \A v \in Venues : pricesResp[v] \in {"done", "skipped"}
  /\ candidates' = findArbitrage(fees, prices, threshold)
  /\ tickersResp' = [v \in Venues |->
                       IF v \in DOMAIN symbolsByExchange(candidates') THEN "pending" ELSE "skipped"]
  /\ pc' = "tickers"
  /\ UNCHANGED <<market, fees, threshold, pairsResp, pairMap, pricesResp, prices,
                 tickersCache, currenciesResp, currenciesCache, vstate, returned>>

Ticker(vol) == [quoteVolume24h |-> vol]

\* binance maps the payload with Number() and keeps NaN; kucoin and huobi
\* drop a non-finite volume
VolumeChoices(v) == IF v = "binance" THEN market.volumes ELSE market.volumes \ {NaN}

TickerResponses(v, syms) ==
  UNION { [D -> {Ticker(vol) : vol \in VolumeChoices(v)}] : D \in SUBSET syms }

TickersResolve(v, resp) ==
  /\ pc = "tickers"
  /\ tickersResp[v] = "pending"
  /\ tickersCache' = [w \in DOMAIN tickersCache \cup {v} |->
                        IF w = v THEN resp ELSE tickersCache[w]]
  /\ tickersResp' = [tickersResp EXCEPT ![v] = "done"]
  /\ UNCHANGED <<market, fees, pc, threshold, pairsResp, pairMap, pricesResp, prices, candidates,
                 currenciesResp, currenciesCache, vstate, returned>>

\* a prefetch without the try/catch: the rejection leaves Promise.all
TickersRejectUncaught(v) ==
  /\ pc = "tickers"
  /\ tickersResp[v] = "pending"
  /\ tickersResp' = [tickersResp EXCEPT ![v] = "rejected"]
  /\ pc' = "failed"
  /\ UNCHANGED <<market, fees, threshold, pairsResp, pairMap, pricesResp, prices, candidates,
                 tickersCache, currenciesResp, currenciesCache, vstate, returned>>

\* catch { tickersCache.set(exchangeName, {}) }
TickersReject(v) ==
  /\ pc = "tickers"
  /\ tickersResp[v] = "pending"
  /\ tickersCache' = [w \in DOMAIN tickersCache \cup {v} |->
                        IF w = v THEN [s \in {} |-> Ticker(NONE)] ELSE tickersCache[w]]
  /\ tickersResp' = [tickersResp EXCEPT ![v] = "done"]
  /\ UNCHANGED <<market, fees, pc, threshold, pairsResp, pairMap, pricesResp, prices, candidates,
                 currenciesResp, currenciesCache, vstate, returned>>

TickersDone ==
  /\ pc = "tickers"
  /\ \A v \in Venues : tickersResp[v] # "pending"
  /\ currenciesResp' = [v \in Venues |->
                          IF v \in Range(currencyCalls(candidates)) THEN "pending" ELSE "skipped"]
  /\ pc' = "currencies"
  /\ UNCHANGED <<market, fees, threshold, pairsResp, pairMap, pricesResp, prices, candidates,
                 tickersResp, tickersCache, currenciesCache, vstate, returned>>

CurrencyResponses == {NONE} \cup {Some(c) : c \in market.currencies}

CurrenciesResolve(v, data) ==
  /\ pc = "currencies"
  /\ currenciesResp[v] = "pending"
  /\ currenciesCache' = [w \in DOMAIN currenciesCache \cup {v} |->
                           IF w = v THEN data ELSE currenciesCache[w]]
  /\ currenciesResp' = [currenciesResp EXCEPT ![v] = "done"]
  /\ UNCHANGED <<market, fees, pc, threshold, pairsResp, pairMap, pricesResp, prices, candidates,
                 tickersResp, tickersCache, vstate, returned>>

\* catch { currenciesCache.set(name, null) }
CurrenciesReject(v) ==
  /\ pc = "currencies"
  /\ currenciesResp[v] = "pending"
  /\ currenciesCache' = [w \in DOMAIN currenciesCache \cup {v} |->
                           IF w = v THEN NONE ELSE currenciesCache[w]]
  /\ currenciesResp' = [currenciesResp EXCEPT ![v] = "done"]
  /\ UNCHANGED <<market, fees, pc, threshold, pairsResp, pairMap, pricesResp, prices, candidates,
                 tickersResp, tickersCache, vstate, returned>>

VState(stage, buyBook, sellBook, result) ==
  [stage |-> stage, buyBook |-> buyBook, sellBook |-> sellBook, result |-> result]

\* a callback that asks for the buy book before looking at the reasons
startWithBuyBook(opp, tCache) == VState("buyBook", NONE, NONE, NONE)

\* the validator callback of one candidate up to its first await
startValidation(opp, tCache) ==
  LET reasons == liquidityReasons(opp, tCache)
  IN  IF Len(reasons) > 0
        THEN VState("done", NONE, NONE,
                    Some(attachValidation(opp, "rejected", reasons,
                                          volumeOf(tCache, opp.buy.exchange, opp.symbol),
                                          volumeOf(tCache, opp.sell.exchange, opp.symbol),
                                          NoLeg, NoLeg, NONE)))
        ELSE VState("buyBook", NONE, NONE, NONE)

CurrenciesDone ==
  /\ pc = "currencies"
  /\ \A v \in Venues : currenciesResp[v] # "pending"
  /\ vstate' = [i \in 1..Len(candidates) |-> startValidation(candidates[i], tickersCache)]
  /\ pc' = "validating"
  /\ UNCHANGED <<market, fees, threshold, pairsResp, pairMap, pricesResp, prices, candidates,
                 tickersResp, tickersCache, currenciesResp, currenciesCache, returned>>

\* the books a venue answers with: the side the validator reads varies
BuyBookChoices == {Book(<<Level(RInt(99), <<2, 1>>)>>, a) : a \in market.asks}
SellBookChoices == {Book(b, <<Level(RInt(107), <<2, 1>>)>>) : b \in market.bids}

\* a rejection that attaches no reason
rejectedSilently(opp, reason) ==
  attachValidation(opp, "rejected", <<>>,
                   volumeOf(tickersCache, opp.buy.exchange, opp.symbol),
                   volumeOf(tickersCache, opp.sell.exchange, opp.symbol),
                   NoLeg, NoLeg, NONE)

\* attachValidation(opp, 'rejected', [`... order book unavailable ...`], buyVol, sellVol)
rejectedNow(opp, reason) ==
  attachValidation(opp, "rejected", <<reason>>,
                   volumeOf(tickersCache, opp.buy.exchange, opp.symbol),
                   volumeOf(tickersCache, opp.sell.exchange, opp.symbol),
                   NoLeg, NoLeg, NONE)

\* safeOrderBook(buyEx) settled with book (NONE: null, or a rejection caught)
buyBookSettled(i, book) ==
  /\ pc = "validating"
  /\ vstate[i].stage = "buyBook"
  /\ vstate' = [vstate EXCEPT ![i] =
                  IF book = NONE
                    THEN VState("done", NONE, NONE,
                                Some(rejectedNow(candidates[i], "buy order book unavailable")))
                    ELSE VState("sellBook", book, NONE, NONE)]
  /\ UNCHANGED <<market, fees, pc, threshold, pairsResp, pairMap, pricesResp, prices, candidates,
                 tickersResp, tickersCache, currenciesResp, currenciesCache, returned>>

BuyBookResolve(i, book) == buyBookSettled(i, book)
BuyBookReject(i) == buyBookSettled(i, NONE)

sellBookSettled(i, book) ==
  /\ pc = "validating"
  /\ vstate[i].stage = "sellBook"
  /\ vstate' = [vstate EXCEPT ![i] =
                  IF book = NONE
                    THEN VState("done", vstate[i].buyBook, NONE,
                                Some(rejectedNow(candidates[i], "sell order book unavailable")))
                    ELSE VState("done", vstate[i].buyBook, book,
                                Some(validateWithBooks(candidates[i], tickersCache, currenciesCache,
                                                       vstate[i].buyBook[1], book[1])))]
  /\ UNCHANGED <<market, fees, pc, threshold, pairsResp, pairMap, pricesResp, prices, candidates,
                 tickersResp, tickersCache, currenciesResp, currenciesCache, returned>>

SellBookResolve(i, book) == sellBookSettled(i, book)
SellBookReject(i) == sellBookSettled(i, NONE)

results == [i \in 1..Len(vstate) |-> vstate[i].result[1]]

\* Promise.all settles; only the validated entries are returned
ValidationDone ==
  /\ pc = "validating"
  /\ \A i \in 1..Len(vstate) : vstate[i].stage = "done"
  /\ returned' = filterValidated(results, 1)
  /\ pc' = "done"
  /\ UNCHANGED <<market, fees, threshold, pairsResp, pairMap, pricesResp, prices, candidates,
                 tickersResp, tickersCache, currenciesResp, currenciesCache, vstate>>

Registry ==
  \/ \E a \in ThresholdArgs : StartScan(a)
  \/ \E v \in Venues, S \in SUBSET Symbols : GetPairsResolve(v, S)
  \/ \E v \in Venues : GetPairsReject(v)
  \/ CollectPairsDone

Aggregation ==
  \/ \E v \in Venues : \E resp \in PriceResponses(symbolsForExchange(pairMap, v)) :
        GetPricesResolve(v, resp)
  \/ \E v \in Venues : GetPricesReject(v)
  \/ CollectPricesDone

Validation ==
  \/ \E v \in Venues : \E resp \in TickerResponses(v, requestedSymbols(candidates, v)) :
        TickersResolve(v, resp)
  \/ \E v \in Venues : TickersReject(v)
  \/ TickersDone
  \/ \E v \in Venues : \E data \in CurrencyResponses : CurrenciesResolve(v, data)
  \/ \E v \in Venues : CurrenciesReject(v)
  \/ CurrenciesDone
  \/ \E i \in 1..Len(vstate) : \E book \in {NONE} \cup {Some(b) : b \in BuyBookChoices} :
        BuyBookResolve(i, book)
  \/ \E i \in 1..Len(vstate) : BuyBookReject(i)
  \/ \E i \in 1..Len(vstate) : \E book \in {NONE} \cup {Some(b) : b \in SellBookChoices} :
        SellBookResolve(i, book)
  \/ \E i \in 1..Len(vstate) : SellBookReject(i)
  \/ ValidationDone

Next == Registry \/ Aggregation \/ Validation

Spec == Init /\ [][Next]_vars

\* findArbitrage on its own: from collected prices to the candidates
NextDetect == CollectPricesDone
SpecDetect == InitDetect /\ [][NextDetect]_vars

\* findArbitrage on quotes that may be 0
SpecDetectAnyPrice == InitDetectAnyPrice /\ [][NextDetect]_vars

\* validateOpportunities in depth: from collected prices to the returned list
NextValidate == CollectPricesDone \/ Validation
SpecValidate == InitValidate /\ [][NextValidate]_vars

\* collectPairs and collectPrices over two symbols
CollectSymbols == {"BTCUSDT", "ETHUSDT"}

CollectMarket ==
  [prices |-> {100},
   volumes |-> {RInt(60000)},
   asks |-> { <<Level(RInt(100), <<2, 1>>)>> },
   bids |-> { <<Level(RInt(106), <<2, 1>>)>> },
   currencies |-> { CurrenciesOfBase(<<Network("ERC20", TRUE, TRUE)>>) }]

InitCollect == pc = "idle" /\ Fresh(CollectMarket, NoOverride)

NextCollect ==
  \/ \E a \in ThresholdArgs : StartScan(a)
  \/ \E v \in Venues, S \in SUBSET CollectSymbols : GetPairsResolve(v, S)
  \/ \E v \in Venues : GetPairsReject(v)
  \/ CollectPairsDone
  \/ \E v \in Venues : \E resp \in PriceResponses(symbolsForExchange(pairMap, v)) :
        GetPricesResolve(v, resp)
  \/ \E v \in Venues : GetPricesReject(v)
SpecCollect == InitCollect /\ [][NextCollect]_vars

\* the state in which collectPairs has returned the registry of the listing
\* (venue -> symbols) and collectPrices has issued its getPrices calls
AfterPairs(m, overrides, listing) ==
  LET resp == [v \in Venues |-> [st |-> "done", pairs |-> listing[v]]]
  IN  /\ pc = "collectPrices"
      /\ market = m
      /\ fees = [v \in Venues |-> resolveFees(overrides, v)]
      /\ threshold = DEFAULT_MIN_DIFF_PERCENT
      /\ pairsResp = resp
      /\ pairMap = buildPairMap(resp)
      /\ pricesResp = pricesRequested(buildPairMap(resp))
      /\ prices = <<>>
      /\ candidates = <<>>
      /\ tickersResp = Idle
      /\ tickersCache = EmptyMap
      /\ currenciesResp = Idle
      /\ currenciesCache = EmptyMap
      /\ vstate = <<>>
      /\ returned = <<>>

\* the market of a price collection: two prices a venue can answer with
MergeMarket ==
  [prices |-> {100, 101},
   volumes |-> {RInt(60000)},
   asks |-> { <<Level(RInt(100), <<2, 1>>)>> },
   bids |-> { <<Level(RInt(106), <<2, 1>>)>> },
   currencies |-> { CurrenciesOfBase(<<Network("ERC20", TRUE, TRUE)>>) }]

\* what the venues list: both symbols on two venues and one symbol on a
\* third, or one symbol on three venues
MergeListings ==
  { [v \in Venues |-> CASE v = "binance" -> {"BTCUSDT", "ETHUSDT"}
                         [] v = "kucoin" -> {"BTCUSDT", "ETHUSDT"}
                         [] v = "huobi" -> {"ETHUSDT"}
                         [] OTHER -> {}],
    [v \in Venues |-> IF v = "huobi" THEN {} ELSE {"BTCUSDT"}] }

InitMerge == \E listing \in MergeListings : AfterPairs(MergeMarket, NoOverride, listing)

\* collectPrices: the getPrices answers arrive in any order
NextMerge ==
  \/ \E v \in Venues : \E resp \in PriceResponses(symbolsForExchange(pairMap, v)) :
        GetPricesResolve(v, resp)
  \/ \E v \in Venues : GetPricesReject(v)
SpecMerge == InitMerge /\ [][NextMerge]_vars

\* the two prefetches of validateOpportunities over the candidates of two
\* symbols: from collected prices to the start of the per-candidate validation
NextPrefetch ==
  \/ CollectPricesDone
  \/ \E v \in Venues : \E resp \in TickerResponses(v, requestedSymbols(candidates, v)) :
        TickersResolve(v, resp)
  \/ \E v \in Venues : TickersReject(v)
  \/ TickersDone
  \/ \E v \in Venues : \E data \in CurrencyResponses : CurrenciesResolve(v, data)
  \/ \E v \in Venues : CurrenciesReject(v)
  \/ CurrenciesDone
SpecPrefetch == InitPrefetch /\ [][NextPrefetch]_vars

\* validateOpportunities when every provider call settles and the event loop
\* runs every continuation that is ready (each HTTP client has a timeout, so
\* no promise stays pending for ever)
InitSettling ==
  \E es \in ValidateEntries : AfterPrices(ScanMarket, NoOverride, DEFAULT_MIN_DIFF_PERCENT, "BTCUSDT", es)

SpecSettling == InitSettling /\ [][NextValidate]_vars /\ WF_vars(Validation)

\* ------------------------------------------------------------------------
\* Properties
\* ------------------------------------------------------------------------
Started == 1..Len(vstate)
DoneIdx == {i \in Started : vstate[i].stage = "done"}
Res(i) == vstate[i].result[1]
Val(i) == Res(i).validation[1]
ReasonsOf(i) == Range(Val(i).reasons)

LiquidityReasons ==
  {"buy volume_24h unknown", "sell volume_24h unknown",
   "buy volume_24h < MIN_24H_VOLUME", "sell volume_24h < MIN_24H_VOLUME"}
DepthReasons ==
  {"order book unsupported on buy venue", "order book unsupported on sell venue",
   "buy order book unavailable", "sell order book unavailable",
   "best ask missing", "best bid missing",
   "insufficient buy-side depth", "insufficient sell-side depth",
   "buy slippage > MAX_SLIPPAGE_PERCENT", "sell slippage > MAX_SLIPPAGE_PERCENT"}

\* the candidate finished without a reason from the liquidity or the
\* depth/slippage check
PassedDepth(i) == i \in DoneIdx /\ ReasonsOf(i) \cap (LiquidityReasons \cup DepthReasons) = {}

\* C1: every opportunity of the returned list is a validator result with
\* validation.status = validated, and no rejected result is in the list.
C1_ReturnedOnlyValidated ==
  /\ \A k \in 1..Len(returned) :
       /\ returned[k].validation # NONE
       /\ returned[k].validation[1].status = "validated"
       /\ \E i \in DoneIdx : Res(i) = returned[k]
  /\ \A i \in DoneIdx :
       (Val(i).status = "rejected" \/ Val(i).reasons # <<>>) =>
         \A k \in 1..Len(returned) : returned[k] # Res(i)

C1_Witness == pc = "done" /\ Len(returned) > 0

\* the venue gave no currency metadata: no getCurrencies, a failed call or null
MetadataUnavailable(v) == v \notin DOMAIN currenciesCache \/ currenciesCache[v] = NONE

UnavailableCase(i) ==
  /\ PassedDepth(i)
  /\ MetadataUnavailable(candidates[i].buy.exchange) \/ MetadataUnavailable(candidates[i].sell.exchange)

VolUnknown(v, s) ==
  \/ v \notin DOMAIN tickersCache
  \/ s \notin DOMAIN tickersCache[v]
  \/ tickersCache[v][s].quoteVolume24h = NONE

VolLow(v, s) ==
  /\ ~VolUnknown(v, s)
  /\ tickersCache[v][s].quoteVolume24h # NaN
  /\ tickersCache[v][s].quoteVolume24h[1] < MIN_24H_VOLUME * tickersCache[v][s].quoteVolume24h[2]

BooksObtained(i) == i \in DoneIdx /\ vstate[i].buyBook # NONE /\ vstate[i].sellBook # NONE
AsksOf(i) == vstate[i].buyBook[1].asks
BidsOf(i) == vstate[i].sellBook[1].bids

\* total quote value of a side and total base amount of a side
RECURSIVE DepthQuote(_)
DepthQuote(levels) ==
  IF levels = <<>> THEN RInt(0)
  ELSE RAdd(RMul(Head(levels).price, Head(levels).amount), DepthQuote(Tail(levels)))

RECURSIVE DepthBase(_)
DepthBase(levels) ==
  IF levels = <<>> THEN RInt(0) ELSE RAdd(Head(levels).amount, DepthBase(Tail(levels)))

\* the ask side holds less than the trade notional
CannotFillBuy(i) == RLess(DepthQuote(AsksOf(i)), RInt(DEFAULT_TRADE_AMOUNT))

\* the buy fills, and the bid side holds less than the base amount bought
CannotAbsorbSell(i) ==
  /\ ~CannotFillBuy(i)
  /\ RLess(DepthBase(BidsOf(i)),
           vwapBuyForQuoteAmount(vstate[i].buyBook[1], RInt(DEFAULT_TRADE_AMOUNT))[1].baseAmount)

\* C4 as stated: with both books obtained, an ask side that cannot fill the
\* notional gives a rejection naming insufficient buy-side depth, and a bid
\* side that cannot absorb the bought base amount gives a rejection naming
\* insufficient sell-side depth.
C4_DepthRejectionNamesSide ==
  \A i \in DoneIdx : BooksObtained(i) =>
    /\ CannotFillBuy(i) =>
         Val(i).status = "rejected" /\ Val(i).reasons = <<"insufficient buy-side depth">>
    /\ CannotAbsorbSell(i) =>
         Val(i).status = "rejected" /\ Val(i).reasons = <<"insufficient sell-side depth">>

\* C4 amended: such a candidate is always rejected, whatever its netDiff;
\* the reason names insufficient buy-side respectively sell-side depth when
\* the buy book has a best ask and the sell book has a best bid, and is
\* "best ask missing" for an empty ask side, "best bid missing" for an empty
\* bid side under a non-empty ask side.
C4_DepthRejected ==
  \A i \in DoneIdx : BooksObtained(i) =>
    /\ (CannotFillBuy(i) \/ CannotAbsorbSell(i)) => Val(i).status = "rejected"
    /\ AsksOf(i) = <<>> => Val(i).reasons = <<"best ask missing">>
    /\ (AsksOf(i) # <<>> /\ BidsOf(i) = <<>>) => Val(i).reasons = <<"best bid missing">>
    /\ (AsksOf(i) # <<>> /\ BidsOf(i) # <<>>) =>
         /\ CannotFillBuy(i) => Val(i).reasons = <<"insufficient buy-side depth">>
         /\ CannotAbsorbSell(i) => Val(i).reasons = <<"insufficient sell-side depth">>

C4_Witness ==
  \E i \in DoneIdx :
    /\ BooksObtained(i)
    /\ BidsOf(i) # <<>>
    /\ CannotAbsorbSell(i)
    /\ Val(i).reasons = <<"insufficient sell-side depth">>
    /\ ~RLess(candidates[i].netDiff, RInt(2))

\* both simulations fill for the candidate
BothFill(i) ==
  /\ BooksObtained(i)
  /\ AsksOf(i) # <<>> /\ BidsOf(i) # <<>>
  /\ ~CannotFillBuy(i) /\ ~CannotAbsorbSell(i)

BuyFillOf(i) == vwapBuyForQuoteAmount(vstate[i].buyBook[1], RInt(DEFAULT_TRADE_AMOUNT))[1]
SellFillOf(i) == vwapSellForBaseAmount(vstate[i].sellBook[1], BuyFillOf(i).baseAmount)[1]

\* (executableBuyPrice - bestAsk) / bestAsk * 100
BuySlippageOf(i) ==
  RDiv(RMul(RSub(BuyFillOf(i).executablePrice, AsksOf(i)[1].price), RInt(100)), AsksOf(i)[1].price)
\* (bestBid - executableSellPrice) / bestBid * 100
SellSlippageOf(i) ==
  RDiv(RMul(RSub(BidsOf(i)[1].price, SellFillOf(i).executablePrice), RInt(100)), BidsOf(i)[1].price)

\* C5: a candidate whose buy or sell slippage exceeds MAX_SLIPPAGE_PERCENT
\* is rejected, and every validated opportunity records both slippages,
\* each at most MAX_SLIPPAGE_PERCENT.
C5_SlippageBounded ==
  \A i \in DoneIdx :
    /\ (/\ BothFill(i)
        /\ \/ RLess(MAX_SLIPPAGE_PERCENT, BuySlippageOf(i))
           \/ RLess(MAX_SLIPPAGE_PERCENT, SellSlippageOf(i)))
         => Val(i).status = "rejected"
    /\ Val(i).status = "validated" =>
         /\ BothFill(i)
         /\ Val(i).buy.slippagePercent = BuySlippageOf(i)
         /\ Val(i).sell.slippagePercent = SellSlippageOf(i)
         /\ RLeq(Val(i).buy.slippagePercent, MAX_SLIPPAGE_PERCENT)
         /\ RLeq(Val(i).sell.slippagePercent, MAX_SLIPPAGE_PERCENT)

C5_Witness ==
  \E i \in DoneIdx :
    /\ BothFill(i)
    /\ RLeq(BuySlippageOf(i), MAX_SLIPPAGE_PERCENT)
    /\ RLess(MAX_SLIPPAGE_PERCENT, SellSlippageOf(i))
    /\ Val(i).status = "rejected"
    /\ Val(i).reasons = <<"sell slippage > MAX_SLIPPAGE_PERCENT">>

\* the networks a venue's metadata lists for the base asset of the symbol
ListedNetworks(v, symbol) ==
  LET m == currenciesCache[v][1]
      base == baseFromSymbolUsdt(symbol)
  IN  IF base \in DOMAIN m THEN Range(m[base].networks) ELSE {}

MetadataPresent(i) ==
  /\ ~MetadataUnavailable(candidates[i].buy.exchange)
  /\ ~MetadataUnavailable(candidates[i].sell.exchange)

NetworksMissing(i) ==
  \/ ListedNetworks(candidates[i].buy.exchange, candidates[i].symbol) = {}
  \/ ListedNetworks(candidates[i].sell.exchange, candidates[i].symbol) = {}

NoCommonNetwork(i) ==
  {n.network : n \in {x \in ListedNetworks(candidates[i].buy.exchange, candidates[i].symbol) :
                        x.withdrawEnabled}}
  \cap {n.network : n \in {x \in ListedNetworks(candidates[i].sell.exchange, candidates[i].symbol) :
                             x.depositEnabled}} = {}

\* C6: with metadata present on both venues, a candidate that passed
\* liquidity and depth/slippage is rejected when the base asset or its
\* networks are missing on either venue (unknown) or when no network is
\* withdraw-enabled on the buy venue and deposit-enabled on the sell venue
\* (blocked), and the transfer result is on its validation record.
C6_UnknownOrBlockedRejected ==
  \A i \in DoneIdx : (PassedDepth(i) /\ MetadataPresent(i)) =>
    /\ NetworksMissing(i) =>
         /\ Val(i).status = "rejected"
         /\ Val(i).transfer # NONE
         /\ Val(i).transfer[1].status = "unknown"
    /\ (~NetworksMissing(i) /\ NoCommonNetwork(i)) =>
         /\ Val(i).status = "rejected"
         /\ Val(i).transfer # NONE
         /\ Val(i).transfer[1].status = "blocked"

C6_Witness ==
  \E i \in DoneIdx :
    /\ PassedDepth(i) /\ MetadataPresent(i)
    /\ ~NetworksMissing(i) /\ NoCommonNetwork(i)
    /\ Val(i).status = "rejected"
    /\ Val(i).transfer[1].status = "blocked"

\* C7: every validated opportunity, and so every returned one, has
\* realProfitUsd >= MIN_REAL_PROFIT_USD, and a candidate whose computed real
\* profit is below MIN_REAL_PROFIT_USD is rejected.
C7_ValidatedProfitAtLeastMin ==
  /\ \A i \in DoneIdx :
       /\ Val(i).status = "validated" =>
            /\ Res(i).realProfitUsd # NONE
            /\ ~RLess(Res(i).realProfitUsd, RInt(MIN_REAL_PROFIT_USD))
       /\ (Res(i).realProfitUsd # NONE /\ RLess(Res(i).realProfitUsd, RInt(MIN_REAL_PROFIT_USD))) =>
            Val(i).status = "rejected"
  /\ \A k \in 1..Len(returned) :
       /\ returned[k].realProfitUsd # NONE
       /\ ~RLess(returned[k].realProfitUsd, RInt(MIN_REAL_PROFIT_USD))

C7_Witness ==
  /\ pc = "done"
  /\ \E k \in 1..Len(returned) : ~RLess(returned[k].realProfitUsd, RInt(MIN_REAL_PROFIT_USD))


\* findArbitrage has run on the collected prices
Detected == pc # "idle" /\ pc # "collectPairs" /\ pc # "collectPrices" /\ pc # "failed"

Emitted(symbol) == \E k \in 1..Len(candidates) : candidates[k].symbol = symbol

\* price * (1 + totalFee / 100) and price * (1 - totalFee / 100) of a quote,
\* with totalFee = takerFeePercent + transferFeePercent of its venue
TotalFee(v) == RAdd(fees[v].takerFeePercent, fees[v].transferFeePercent)
BuyEff(e) == RDiv(RMul(RInt(e.price), RAdd(RInt(100), TotalFee(e.exchange))), RInt(100))
SellEff(e) == RDiv(RMul(RInt(e.price), RSub(RInt(100), TotalFee(e.exchange))), RInt(100))

MinBuyEff(es) ==
  CHOOSE m \in {BuyEff(es[i]) : i \in 1..Len(es)} : \A j \in 1..Len(es) : RLeq(m, BuyEff(es[j]))
MaxSellEff(es) ==
  CHOOSE m \in {SellEff(es[i]) : i \in 1..Len(es)} : \A j \in 1..Len(es) : RLeq(SellEff(es[j]), m)

\* the fee-adjusted spread between the best legs of a symbol's quotes
NetDiffOfQuotes(es) == RDiv(RMul(RSub(MaxSellEff(es), MinBuyEff(es)), RInt(100)), MinBuyEff(es))

AllQuotesPositive(es) == \A i \in 1..Len(es) : es[i].price > 0

C9_SingleQuoteNeverEmitted ==
  Detected =>
    /\ \A j \in 1..Len(prices) : Len(prices[j].entries) < 2 => ~Emitted(prices[j].symbol)
    /\ \A k \in 1..Len(candidates) :
         \E j \in 1..Len(prices) :
           prices[j].symbol = candidates[k].symbol /\ Len(prices[j].entries) >= 2

C9_Witness ==
  /\ Detected
  /\ RSign(threshold) < 0
  /\ \E j \in 1..Len(prices) : Len(prices[j].entries) = 1 /\ ~Emitted(prices[j].symbol)

\* C10: the buy leg of every emitted opportunity is a quote of the symbol
\* whose price * (1 + totalFee / 100) is minimal among all its quotes, the
\* sell leg one whose price * (1 - totalFee / 100) is maximal, totalFee being
\* takerFeePercent + transferFeePercent of the venue.
C10_LegsAreEffectiveExtremes ==
  \A k \in 1..Len(candidates) :
    LET c == candidates[k]
        es == c.exchanges
    IN  /\ \E i \in 1..Len(es) :
             /\ es[i].exchange = c.buy.exchange
             /\ es[i].price = c.buy.price
             /\ c.buy.effectivePrice = BuyEff(es[i])
             /\ c.buy.feePercentApplied = TotalFee(es[i].exchange)
        /\ c.buy.effectivePrice = MinBuyEff(es)
        /\ \E i \in 1..Len(es) :
             /\ es[i].exchange = c.sell.exchange
             /\ es[i].price = c.sell.price
             /\ c.sell.effectivePrice = SellEff(es[i])
             /\ c.sell.feePercentApplied = TotalFee(es[i].exchange)
        /\ c.sell.effectivePrice = MaxSellEff(es)

\* the raw-cheapest venue is not the buy leg
C10_Witness ==
  \E k \in 1..Len(candidates) : candidates[k].buy.price > candidates[k].min


\* rep is a number with at most two decimals, at most 0.005 away from exact
ReportedToTwoDecimals(rep, exact) ==
  /\ 100 % rep[2] = 0
  /\ RLeq(RSub(rep, exact), <<1, 200>>)
  /\ RLeq(RSub(exact, rep), <<1, 200>>)

RawMin(es) == CHOOSE p \in {es[i].price : i \in 1..Len(es)} : \A j \in 1..Len(es) : p <= es[j].price
RawMax(es) == CHOOSE p \in {es[i].price : i \in 1..Len(es)} : \A j \in 1..Len(es) : p >= es[j].price

\* two venues quote 100 and 101 and each has a total fee of 0.1 percent
ScenarioA(c) ==
  /\ Len(c.exchanges) = 2
  /\ {c.exchanges[1].price, c.exchanges[2].price} = {100, 101}
  /\ \A i \in 1..2 : TotalFee(c.exchanges[i].exchange) = <<1, 10>>

\* C11: every emitted opportunity reports diff = (max - min) / min * 100 over
\* the raw prices of all its quotes and netDiff = (sell.effectivePrice -
\* buy.effectivePrice) / buy.effectivePrice * 100, each to two decimals; 100
\* and 101 with a total fee of 0.1 percent on both venues give diff 1.00 and
\* netDiff 0.80, buying at 100 and selling at 101.
C11_ReportedDiffs ==
  \A k \in 1..Len(candidates) :
    LET c == candidates[k]
    IN  /\ c.min = RawMin(c.exchanges)
        /\ c.max = RawMax(c.exchanges)
        /\ ReportedToTwoDecimals(c.diff, RDiv(RInt((c.max - c.min) * 100), RInt(c.min)))
        /\ ReportedToTwoDecimals(
             c.netDiff,
             RDiv(RMul(RSub(c.sell.effectivePrice, c.buy.effectivePrice), RInt(100)),
                  c.buy.effectivePrice))
        /\ ScenarioA(c) =>
             /\ c.diff = <<1, 1>>
             /\ c.netDiff = <<4, 5>>
             /\ c.buy.price = 100
             /\ c.sell.price = 101

C11_Witness ==
  \E k \in 1..Len(candidates) :
    /\ ScenarioA(candidates[k])
    /\ candidates[k].netDiff = <<4, 5>>
    /\ candidates[k].buy.exchange # candidates[k].sell.exchange

ValidatedIdx == {i \in DoneIdx : Val(i).status = "validated"}

\* DEFAULT_TRADE_AMOUNT * (1 + buyFeePercent / 100) for candidate i
CostOf(i) ==
  RMul(RInt(DEFAULT_TRADE_AMOUNT),
       RAdd(RInt(1), RDiv(TotalFee(candidates[i].buy.exchange), RInt(100))))

\* sellFill.baseAmount * executableSellPrice * (1 - sellFeePercent / 100) - cost
ExactProfitOf(i) ==
  RSub(RMul(RMul(SellFillOf(i).baseAmount, SellFillOf(i).executablePrice),
            RSub(RInt(1), RDiv(TotalFee(candidates[i].sell.exchange), RInt(100)))),
       CostOf(i))

\* C12 as stated: a validated opportunity carries realProfitUsd equal to
\* proceeds minus cost over the executable prices, and netDiff equal to
\* realProfitUsd / cost * 100.
C12_ProfitEqualsFormula ==
  \A i \in ValidatedIdx :
    /\ Res(i).realProfitUsd = ExactProfitOf(i)
    /\ Res(i).netDiff = RDiv(RMul(Res(i).realProfitUsd, RInt(100)), CostOf(i))

\* C12 amended: a validated opportunity carries, each rounded to two
\* decimals, realProfitUsd = proceeds minus cost over the executable prices
\* and netDiff = (unrounded proceeds minus cost) / cost * 100, with
\* tradeAmountUsd = DEFAULT_TRADE_AMOUNT.
C12_ProfitReportedToTwoDecimals ==
  \A i \in ValidatedIdx :
    /\ BothFill(i)
    /\ Res(i).tradeAmountUsd = RInt(DEFAULT_TRADE_AMOUNT)
    /\ ReportedToTwoDecimals(Res(i).realProfitUsd, ExactProfitOf(i))
    /\ ReportedToTwoDecimals(Res(i).netDiff,
                             RDiv(RMul(ExactProfitOf(i), RInt(100)), CostOf(i)))

\* validated at an executable sell price other than the quoted one, with a
\* netDiff other than the one of detection
C12_Witness ==
  \E i \in ValidatedIdx :
    /\ SellFillOf(i).executablePrice # RInt(candidates[i].sell.price)
    /\ Res(i).netDiff # candidates[i].netDiff
    /\ Res(i).realProfitUsd # ExactProfitOf(i)

\* the networks withdraw-enabled on the buy venue of candidate i, and the
\* networks deposit-enabled on its sell venue
WithdrawOnBuy(i) ==
  {n.network : n \in {x \in ListedNetworks(candidates[i].buy.exchange, candidates[i].symbol) :
                        x.withdrawEnabled}}
DepositOnSell(i) ==
  {n.network : n \in {x \in ListedNetworks(candidates[i].sell.exchange, candidates[i].symbol) :
                        x.depositEnabled}}

\* the transferability check ran for candidate i on metadata listing a
\* network for the base asset on both venues
TransferChecked(i) == PassedDepth(i) /\ MetadataPresent(i) /\ ~NetworksMissing(i)

\* C13: when both venues list at least one network for the base asset, the
\* transferability check returns blocked if the networks withdraw-enabled on
\* the buy venue and those deposit-enabled on the sell venue are disjoint,
\* and otherwise ok with a network that is in both sets.
C13_BlockedOrCommonNetwork ==
  \A i \in DoneIdx : TransferChecked(i) =>
    /\ Val(i).transfer # NONE
    /\ (WithdrawOnBuy(i) \cap DepositOnSell(i) = {}) => Val(i).transfer[1].status = "blocked"
    /\ (WithdrawOnBuy(i) \cap DepositOnSell(i) # {}) =>
         /\ Val(i).transfer[1].status = "ok"
         /\ Val(i).transfer[1].network \in WithdrawOnBuy(i) \cap DepositOnSell(i)

\* ok with a network that is not the first one the buy venue can withdraw on
C13_Witness ==
  \E i \in DoneIdx :
    /\ TransferChecked(i)
    /\ Val(i).transfer[1].status = "ok"
    /\ WithdrawOnBuy(i) = {"ERC20", "TRC20"}
    /\ DepositOnSell(i) = {"TRC20"}
    /\ Val(i).transfer[1].network = "TRC20"

\* C14: once the validator has started on a candidate, a leg on a venue
\* without the 24h-ticker operation fails the volume check (volume unknown),
\* a leg on a venue without the order-book operation fails the depth check
\* (order book unsupported), and the candidate is rejected.
C14_MissingOperationRejected ==
  \A i \in Started :
    LET c == candidates[i]
    IN  /\ ~HasTickers24h(c.buy.exchange) =>
             /\ vstate[i].stage = "done" /\ Val(i).status = "rejected"
             /\ "buy volume_24h unknown" \in ReasonsOf(i)
        /\ ~HasTickers24h(c.sell.exchange) =>
             /\ vstate[i].stage = "done" /\ Val(i).status = "rejected"
             /\ "sell volume_24h unknown" \in ReasonsOf(i)
        /\ ~HasOrderBook(c.buy.exchange) =>
             /\ vstate[i].stage = "done" /\ Val(i).status = "rejected"
             /\ "order book unsupported on buy venue" \in ReasonsOf(i)
        /\ ~HasOrderBook(c.sell.exchange) =>
             /\ vstate[i].stage = "done" /\ Val(i).status = "rejected"
             /\ "order book unsupported on sell venue" \in ReasonsOf(i)

\* the sell venue has neither operation, the buy venue has both and reported
\* enough volume
C14_Witness ==
  \E i \in DoneIdx :
    /\ ~HasTickers24h(candidates[i].sell.exchange)
    /\ ~HasOrderBook(candidates[i].sell.exchange)
    /\ HasTickers24h(candidates[i].buy.exchange)
    /\ Val(i).reasons = <<"sell volume_24h unknown", "order book unsupported on sell venue">>
    /\ Val(i).status = "rejected"

\* some venue's getPairs or getPrices call has failed
ProviderCallFailed ==
  \E v \in Venues : pairsResp[v].st = "rejected" \/ pricesResp[v] = "rejected"

\* C15: when one venue's pair-discovery or price call fails, the scan is not
\* aborted and no error leaves it: the scan goes on with the answers of the
\* other venues.
C15_ProviderFailureDoesNotAbort == ProviderCallFailed => pc # "failed"

\* the fee-adjusted netDiff of candidate i as findArbitrage compared it
DetectionNetDiffOf(i) ==
  RDiv(RMul(RSub(candidates[i].sell.effectivePrice, candidates[i].buy.effectivePrice), RInt(100)),
       candidates[i].buy.effectivePrice)

FeeRaises == {<<1, 10>>, <<2, 1>>}
RaisedFees(v, d) ==
  [fees EXCEPT ![v] = FeeRec(RAdd(fees[v].takerFeePercent, d), fees[v].transferFeePercent)]

\* C17: with the prices and the fees of the other venues unchanged, raising
\* one venue's takerFeePercent does not lower its effective buy price and
\* does not raise its effective sell price, and the venue is the selected
\* buy (sell) leg under the raised fee only if it already was under the
\* lower one.
C17_FeeMonotonic ==
  Detected =>
    \A j \in 1..Len(prices) : \A v \in Venues : \A d \in FeeRaises :
      LET es == prices[j].entries
          raised == RaisedFees(v, d)
      IN  /\ \A i \in 1..Len(es) :
               es[i].exchange = v =>
                 /\ RLeq(buildLeg(fees[v], v, es[i].price, "buy").effectivePrice,
                         buildLeg(raised[v], v, es[i].price, "buy").effectivePrice)
                 /\ RLeq(buildLeg(raised[v], v, es[i].price, "sell").effectivePrice,
                         buildLeg(fees[v], v, es[i].price, "sell").effectivePrice)
          /\ Len(es) >= 1 =>
               /\ bestBuyOf(raised, es).exchange = v => bestBuyOf(fees, es).exchange = v
               /\ bestSellOf(raised, es).exchange = v => bestSellOf(fees, es).exchange = v

\* an emitted opportunity whose buy venue loses the buy leg when its fee is
\* raised
C17_Witness ==
  /\ Detected
  /\ \E k \in 1..Len(candidates) : \E d \in FeeRaises :
       /\ Len(candidates[k].exchanges) >= 2
       /\ bestBuyOf(RaisedFees(candidates[k].buy.exchange, d), candidates[k].exchanges).exchange
            # candidates[k].buy.exchange

\* trade sizes around the levels of the books, in increasing order: quote
\* amounts to buy for and base amounts to sell
QuoteSizes == <<RInt(25), RInt(50), RInt(100), RInt(150)>>
BaseSizes == <<<<1, 4>>, <<1, 2>>, RInt(1), <<3, 2>>>>

\* (executablePrice - bestAsk) / bestAsk * 100 of a buy fill
BuySlippageOfFill(book, fill) ==
  RDiv(RMul(RSub(fill.executablePrice, book.asks[1].price), RInt(100)), book.asks[1].price)

\* (bestBid - executablePrice) / bestBid * 100 of a sell fill
SellSlippageOfFill(book, fill) ==
  RDiv(RMul(RSub(book.bids[1].price, fill.executablePrice), RInt(100)), book.bids[1].price)

BuySlippageAt(book, q) == BuySlippageOfFill(book, vwapBuyForQuoteAmount(book, q)[1])
SellSlippageAt(book, b) == SellSlippageOfFill(book, vwapSellForBaseAmount(book, b)[1])

\* C18: on the books the validator obtained (asks ascending, bids
\* descending, positive levels), the buy slippage does not decrease when the
\* quote amount grows and the sell slippage does not decrease when the base
\* amount grows, over the sizes the book fills; a size the book fills is
\* followed by no smaller size it does not fill.
C18_SlippageMonotonic ==
  \A i \in DoneIdx : BooksObtained(i) =>
    /\ \A n \in 1..(Len(QuoteSizes) - 1) :
         LET book == vstate[i].buyBook[1]
             small == vwapBuyForQuoteAmount(book, QuoteSizes[n])
             large == vwapBuyForQuoteAmount(book, QuoteSizes[n + 1])
         IN  large # NONE =>
               /\ small # NONE
               /\ RLeq(BuySlippageOfFill(book, small[1]), BuySlippageOfFill(book, large[1]))
    /\ \A n \in 1..(Len(BaseSizes) - 1) :
         LET book == vstate[i].sellBook[1]
             small == vwapSellForBaseAmount(book, BaseSizes[n])
             large == vwapSellForBaseAmount(book, BaseSizes[n + 1])
         IN  large # NONE =>
               /\ small # NONE
               /\ RLeq(SellSlippageOfFill(book, small[1]), SellSlippageOfFill(book, large[1]))

\* the validator recorded a positive buy slippage for the notional on a book
\* that fills half the notional without slippage
C18_Witness ==
  \E i \in DoneIdx :
    /\ BothFill(i)
    /\ Val(i).buy.slippagePercent = BuySlippageAt(vstate[i].buyBook[1], RInt(DEFAULT_TRADE_AMOUNT))
    /\ RSign(BuySlippageAt(vstate[i].buyBook[1], RInt(50))) = 0
    /\ RSign(Val(i).buy.slippagePercent) > 0
    /\ RLess(SellSlippageAt(vstate[i].sellBook[1], <<1, 2>>),
             SellSlippageAt(vstate[i].sellBook[1], RInt(1)))

\* the 24h quote volume of a leg of candidate i is below MIN_24H_VOLUME
LowVolumeLeg(i) ==
  \/ VolLow(candidates[i].buy.exchange, candidates[i].symbol)
  \/ VolLow(candidates[i].sell.exchange, candidates[i].symbol)

\* no order-book request is or was made for candidate i, which is rejected
\* with a volume reason
RejectedWithoutBook(i) ==
  /\ vstate[i].stage = "done"
  /\ vstate[i].buyBook = NONE /\ vstate[i].sellBook = NONE
  /\ Val(i).status = "rejected"
  /\ ReasonsOf(i) \cap {"buy volume_24h < MIN_24H_VOLUME", "sell volume_24h < MIN_24H_VOLUME"} # {}

\* C19: no step of the validator leaves a candidate with a leg below
\* MIN_24H_VOLUME waiting for an order book: from the step that starts it on,
\* the candidate is rejected with a volume reason and no book was requested.
C19_LowVolumeNeverRequestsBook ==
  [][\A i \in 1..Len(vstate') : LowVolumeLeg(i)' => RejectedWithoutBook(i)']_vars

\* the sell leg alone is below the minimum, on venues that offer order books
C19_Witness ==
  \E i \in DoneIdx :
    /\ HasOrderBook(candidates[i].buy.exchange) /\ HasOrderBook(candidates[i].sell.exchange)
    /\ VolLow(candidates[i].sell.exchange, candidates[i].symbol)
    /\ Val(i).reasons = <<"sell volume_24h < MIN_24H_VOLUME">>
    /\ RejectedWithoutBook(i)

\* validateOpportunities is running
Validating == pc \in {"tickers", "currencies", "validating"}

\* every candidate has a result that is validated or rejected
AllTerminal ==
  /\ Len(vstate) = Len(candidates)
  /\ \A i \in 1..Len(candidates) :
       i \in DoneIdx /\ Val(i).status \in {"validated", "rejected"}

\* a step in which getTickers24h, getCurrencies or getOrderBook throws
OptionalCallThrows ==
  \/ \E v \in Venues : TickersReject(v)
  \/ \E v \in Venues : CurrenciesReject(v)
  \/ \E i \in 1..Len(vstate) : BuyBookReject(i) \/ SellBookReject(i)

\* C20: a throwing getTickers24h, getOrderBook or getCurrencies does not
\* end the validation pass with an error: the pass goes on in the same phase,
\* it never fails, it can always take a further step until it has completed,
\* and on completion every candidate is validated or rejected.
C20_ValidationNeverThrows ==
  /\ [][OptionalCallThrows => (pc' = pc /\ pc' # "failed")]_vars
  /\ [](pc # "failed")
  /\ [](Validating => ENABLED Validation)
  /\ [](pc = "done" => AllTerminal)

\* the pass completed although a currency call failed for a venue that has
\* the operation and a sell book could not be had
C20_Witness ==
  /\ pc = "done"
  /\ AllTerminal
  /\ \E v \in Venues : HasCurrencies(v) /\ v \in DOMAIN currenciesCache /\ currenciesCache[v] = NONE
  /\ \E i \in DoneIdx : Val(i).reasons = <<"sell order book unavailable">>

\* the result of candidate i is validated with no reasons or rejected with
\* at least one reason
Terminal(i) ==
  /\ i \in DoneIdx
  /\ Res(i).validation # NONE
  /\ \/ Val(i).status = "validated" /\ Val(i).reasons = NONE
     \/ Val(i).status = "rejected" /\ Val(i).reasons # NONE /\ Len(Val(i).reasons) > 0

\* C21: when every provider call settles, every candidate handed to the
\* validator eventually has a result; a result is validated without reasons
\* or rejected with a non-empty list of reasons, and once a candidate has its
\* result it keeps it.
C21_EveryCandidateTerminates ==
  /\ [](\A i \in DoneIdx : Terminal(i))
  /\ [][\A i \in DoneIdx : i \in 1..Len(vstate') /\ vstate'[i] = vstate[i]]_vars
  /\ (pc = "tickers") ~> (pc = "done" /\ Len(vstate) = Len(candidates)
                                      /\ \A i \in 1..Len(candidates) : Terminal(i))

\* a pass that ended with a candidate in a terminal state
C21_Witness ==
  /\ pc = "done"
  /\ Len(candidates) > 0
  /\ \A i \in 1..Len(candidates) : Terminal(i)
  /\ \E i \in DoneIdx : Val(i).status = "rejected" /\ Val(i).reasons = <<"buy order book unavailable">>

TransferReasons == {"transfer check unknown", "transfer check blocked"}
ProfitReasons == {"realProfitUsd < MIN_REAL_PROFIT_USD"}

\* the four checks of the validator, each as the set of reasons it produces
CheckScopes == {LiquidityReasons, DepthReasons, TransferReasons, ProfitReasons}

\* C22: the checks run in the order liquidity, depth/slippage,
\* transferability, real profit and the validator stops at the first one
\* that fails, so all reasons of a rejected candidate come from one check.
C22_ReasonsFromOneCheck ==
  \A i \in DoneIdx :
     Val(i).status = "rejected" => \E scope \in CheckScopes : ReasonsOf(i) \subseteq scope

\* both simulations succeeded for candidate i: its result records the
\* executable price of the sell leg
BothFilled(i) ==
  /\ i \in DoneIdx
  /\ Res(i).validation # NONE
  /\ Val(i).sell.executablePrice # NONE

\* the last bid level a sale of base needs: the levels before it hold less
\* than base, the levels up to it hold at least base
LastBidUsed(bids, base) ==
  CHOOSE k \in 1..Len(bids) :
     /\ RLess(DepthBase(SubSeq(bids, 1, k - 1)), base)
     /\ RLeq(base, DepthBase(SubSeq(bids, 1, k)))

\* what the sale brings when every level before level k is taken whole and
\* level k gives the rest
ProceedsUpTo(bids, base, k) ==
  RAdd(DepthQuote(SubSeq(bids, 1, k - 1)),
       RMul(RSub(base, DepthBase(SubSeq(bids, 1, k - 1))), bids[k].price))

\* |a - b| <= 1e-9
WithinFillTolerance(a, b) ==
  LeqTiny(IF RLess(a, b) THEN RSub(b, a) ELSE RSub(a, b), INV_1E9)

\* C23: when both simulations succeed, the base amount sold equals the base
\* amount bought up to the fill tolerance, and the recorded executable sell
\* price is the price of taking the bid levels whole from the best one down
\* and a part of the last level used only.
C23_SellsWhatWasBought ==
  \A i \in 1..Len(vstate) :
     BothFilled(i) =>
        /\ WithinFillTolerance(SellFillOf(i).baseAmount, BuyFillOf(i).baseAmount)
        /\ \E k \in 1..Len(BidsOf(i)) :
              /\ k = LastBidUsed(BidsOf(i), BuyFillOf(i).baseAmount)
              /\ RMul(Val(i).sell.executablePrice, SellFillOf(i).baseAmount)
                   = ProceedsUpTo(BidsOf(i), BuyFillOf(i).baseAmount, k)

\* a sale that took the first bid level whole and a part of the second
C23_Witness ==
  \E i \in 1..Len(vstate) :
     /\ BothFilled(i)
     /\ Len(BidsOf(i)) >= 2
     /\ LastBidUsed(BidsOf(i), BuyFillOf(i).baseAmount) = 2
     /\ RLess(RSub(BuyFillOf(i).baseAmount, BidsOf(i)[1].amount), BidsOf(i)[2].amount)

\* validateOpportunities has issued its ticker requests
Prefetching == pc \in {"tickers", "currencies", "validating", "done"}

\* the candidates that have venue v as their buy or their sell leg
CandidatesOn(v) ==
  {i \in 1..Len(candidates) : candidates[i].buy.exchange = v \/ candidates[i].sell.exchange = v}

\* the positions of the calls to venue v in a list of calls
TickerCallsTo(v) == {k \in 1..Len(tickerCalls(candidates)) : tickerCalls(candidates)[k].exchange = v}
CurrencyCallsTo(v) == {k \in 1..Len(currencyCalls(candidates)) : currencyCalls(candidates)[k] = v}

\* C24: in one validation pass getTickers24h is called at most once per
\* venue, with the symbols of all candidates that have the venue as a leg,
\* getCurrencies is called at most once per venue, and a venue that is a leg
\* of no candidate gets neither call.
C24_PrefetchOncePerVenue ==
  Prefetching =>
    \A v \in Venues :
       /\ Cardinality(TickerCallsTo(v)) <= 1
       /\ Cardinality(CurrencyCallsTo(v)) <= 1
       /\ \A k \in TickerCallsTo(v) :
             tickerCalls(candidates)[k].symbols = {candidates[i].symbol : i \in CandidatesOn(v)}
       /\ (tickersResp[v] # "skipped") = (TickerCallsTo(v) # {})
       /\ (pc # "tickers" => (currenciesResp[v] # "skipped") = (CurrencyCallsTo(v) # {}))
       /\ CandidatesOn(v) = {} =>
             /\ TickerCallsTo(v) = {} /\ CurrencyCallsTo(v) = {}
             /\ v \notin DOMAIN tickersCache /\ v \notin DOMAIN currenciesCache

\* two candidates share kucoin as a leg, kucoin was asked for both symbols
\* and for its currencies, and some venue is a leg of neither candidate
C24_Witness ==
  /\ pc = "validating"
  /\ Len(candidates) = 2
  /\ CandidatesOn("kucoin") = {1, 2}
  /\ "kucoin" \in DOMAIN tickersCache /\ DOMAIN tickersCache["kucoin"] = {"BTCUSDT", "ETHUSDT"}
  /\ "kucoin" \in DOMAIN currenciesCache
  /\ \E v \in Venues : CandidatesOn(v) = {} /\ tickersResp[v] = "skipped"

\* collectPrices has made its calls
PricesRequested == pc = "collectPrices" \/ (pc = "failed" /\ \A v \in Venues : pairsResp[v].st = "done")

\* the symbols venue v answered getPairs with: the registry lists v for them
ListedFor(v) == pairsResp[v].pairs

\* the positions of the calls to venue v in a list of calls
PriceCallsTo(calls, v) == {k \in 1..Len(calls) : calls[k].exchange = v}

\* C25: in one scan collectPrices calls getPrices at most once per venue,
\* with exactly the symbols for which the registry lists the venue, and not
\* at all for a venue the registry lists for no symbol.
C25_OnePriceCallPerListedVenue ==
  PricesRequested =>
    LET calls == priceCalls(pairMap)
    IN  \A v \in Venues :
           /\ Cardinality(PriceCallsTo(calls, v)) <= 1
           /\ \A k \in PriceCallsTo(calls, v) : calls[k].symbols = ListedFor(v)
           /\ (ListedFor(v) = {}) = (PriceCallsTo(calls, v) = {})
           /\ (ListedFor(v) = {}) = (pricesResp[v] = "skipped")
           /\ \A k \in 1..Len(prices) :
                 v \in QuotingVenues(prices[k]) => prices[k].symbol \in ListedFor(v)

\* binance is listed for both symbols and was asked, kucoin for one symbol,
\* and qmall for none and was skipped
C25_Witness ==
  /\ pc = "collectPrices"
  /\ ListedFor("binance") = {"BTCUSDT", "ETHUSDT"} /\ pricesResp["binance"] = "done"
  /\ ListedFor("kucoin") = {"ETHUSDT"} /\ pricesResp["kucoin"] = "pending"
  /\ ListedFor("qmall") = {} /\ pricesResp["qmall"] = "skipped"

\* every fee of the table is at least 0
FeesNonNegative ==
  \A v \in Venues : RSign(fees[v].takerFeePercent) >= 0 /\ RSign(fees[v].transferFeePercent) >= 0

\* every quote behind candidate c is above 0
QuotesPositive(c) == \A j \in 1..Len(c.exchanges) : c.exchanges[j].price > 0

C27_NetDiffAtMostDiff ==
  (Detected /\ FeesNonNegative) =>
     \A k \in 1..Len(candidates) :
        QuotesPositive(candidates[k]) => RLeq(candidates[k].netDiff, candidates[k].diff)

\* an opportunity from positive quotes whose fees make netDiff smaller than
\* diff, the legs standing on the venues of the lowest and the highest price
C27_Witness ==
  /\ Detected /\ FeesNonNegative
  /\ \E k \in 1..Len(candidates) :
       /\ QuotesPositive(candidates[k])
       /\ candidates[k].buy.price = candidates[k].min
       /\ candidates[k].sell.price = candidates[k].max
       /\ RSign(candidates[k].buy.feePercentApplied) > 0
       /\ RLess(candidates[k].netDiff, candidates[k].diff)

\* C28: on books whose asks ascend and whose bids descend, with positive
\* prices and amounts, a successful buy simulation pays at least the best ask
\* per unit, a successful sell simulation receives at most the best bid per
\* unit, and both slippage percentages recorded by the validator are >= 0.
C28_SlippageNonNegative ==
  \A i \in 1..Len(vstate) :
     BothFilled(i) =>
        /\ RLeq(AsksOf(i)[1].price, BuyFillOf(i).executablePrice)
        /\ RLeq(SellFillOf(i).executablePrice, BidsOf(i)[1].price)
        /\ Val(i).buy.bestPrice = AsksOf(i)[1].price
        /\ Val(i).sell.bestPrice = BidsOf(i)[1].price
        /\ Val(i).buy.executablePrice = BuyFillOf(i).executablePrice
        /\ Val(i).sell.executablePrice = SellFillOf(i).executablePrice
        /\ RSign(Val(i).buy.slippagePercent) >= 0
        /\ RSign(Val(i).sell.slippagePercent) >= 0

\* a trade that needed two ask levels and two bid levels: both recorded
\* slippages are above 0
C28_Witness ==
  \E i \in 1..Len(vstate) :
     /\ BothFilled(i)
     /\ Len(AsksOf(i)) >= 2 /\ Len(BidsOf(i)) >= 2
     /\ RSign(Val(i).buy.slippagePercent) > 0
     /\ RSign(Val(i).sell.slippagePercent) > 0

\* the detection fields of x are those of candidate c
SameDetection(x, c) ==
  /\ x.symbol = c.symbol /\ x.min = c.min /\ x.max = c.max /\ x.diff = c.diff
  /\ x.buy = c.buy /\ x.sell = c.sell /\ x.exchanges = c.exchanges

\* C29: validation leaves the candidate list as detection built it; the result
\* of candidate i, validated or rejected, carries the candidate's symbol, min,
\* max, diff, buy, sell and exchanges; a rejected result keeps the candidate's
\* netDiff, and every returned opportunity carries the detection fields of
\* the candidate at its position among the results.
C29_ValidationKeepsDetectionFields ==
  /\ [][Detected => candidates' = candidates]_vars
  /\ [](\A i \in DoneIdx :
           /\ i \in 1..Len(candidates)
           /\ SameDetection(Res(i), candidates[i])
           /\ Res(i).validation # NONE
           /\ (Val(i).status = "rejected" => Res(i).netDiff = candidates[i].netDiff))
  /\ [](\A k \in 1..Len(returned) :
           \E i \in 1..Len(candidates) : SameDetection(returned[k], candidates[i]))

\* a result rejected by the profit check: it gained realProfitUsd and kept
\* the candidate's netDiff, which is not 0
C29_Witness ==
  \E i \in DoneIdx :
     /\ Val(i).status = "rejected"
     /\ Res(i).realProfitUsd # NONE
     /\ RSign(Res(i).netDiff) # 0
     /\ Res(i).netDiff = candidates[i].netDiff

\* the mapping held by a price list: its (symbol, venue, price) triples
Triples(pr) ==
  UNION { {<<pr[k].symbol, pr[k].entries[j].exchange, pr[k].entries[j].price>> :
              j \in 1..Len(pr[k].entries)} : k \in 1..Len(pr) }

\* pr maps every (symbol, venue) to one price only
OnePricePerKey(pr) ==
  \A a, b \in Triples(pr) : (a[1] = b[1] /\ a[2] = b[2]) => a = b

\* the list after venue v's answer resp is merged into pr
Merged(pr, v, resp) == putPrices(pr, v, resp, SetToSeq(DOMAIN resp))

\* the triples venue v's answer resp stands for
TriplesOfAnswer(v, resp) == {<<s, v, resp[s]>> : s \in DOMAIN resp}

\* the venues whose getPrices answer is still awaited
AwaitedVenues == {v \in Venues : pricesResp[v] = "pending"}

\* C30: the mapping collectPrices builds does not depend on the order in which
\* the getPrices answers arrive. Merging an answer keeps every triple written
\* before and adds the answering venue's triples and nothing else, and
\* merging the answers of two awaited venues gives the same mapping in both
\* orders.
C30_PricesIndependentOfArrivalOrder ==
  /\ [][\A v \in Venues :
           (pc = "collectPrices" /\ pricesResp[v] = "pending" /\ pricesResp'[v] = "done") =>
              /\ Triples(prices) \subseteq Triples(prices')
              /\ \A t \in Triples(prices') \ Triples(prices) : t[2] = v
              /\ \A t \in Triples(prices) : t[2] # v]_vars
  /\ [](pc = "collectPrices" =>
          /\ OnePricePerKey(prices)
          /\ \A v, w \in AwaitedVenues :
                v # w =>
                  \A rv \in PriceResponses(symbolsForExchange(pairMap, v)),
                     rw \in PriceResponses(symbolsForExchange(pairMap, w)) :
                       /\ Triples(Merged(Merged(prices, v, rv), w, rw))
                            = Triples(Merged(Merged(prices, w, rw), v, rv))
                       /\ Triples(Merged(Merged(prices, v, rv), w, rw))
                            = Triples(prices) \cup TriplesOfAnswer(v, rv) \cup TriplesOfAnswer(w, rw))

\* all answers are in; for one symbol the answer of binance came before the
\* answer of kucoin and for the other after it, the two at different prices
C30_Witness ==
  /\ pc = "collectPrices"
  /\ AwaitedVenues = {}
  /\ Len(prices) = 2
  /\ \E k \in 1..Len(prices) :
       /\ Len(prices[k].entries) >= 2
       /\ prices[k].entries[1].exchange = "kucoin"
       /\ prices[k].entries[2].exchange = "binance"
       /\ prices[k].entries[1].price # prices[k].entries[2].price

====
